---------------------------- MODULE Spec2Model ----------------------------
(***************************************************************************)
(* SupabaseQueryService.executeSQL (src/src/databaseOperation.ts): the     *)
(* translation of MySQL-dialect SQL text into calls on the table-API       *)
(* query builder.  Texts are strings, read character by character; the     *)
(* regular expressions of the source are regular-expression trees run by   *)
(* a backtracking matcher with the priorities of the JavaScript engine.    *)
(***************************************************************************)
EXTENDS Naturals, Sequences, FiniteSets, TLC

(***************************************************************************)
(* Characters and JavaScript string primitives.                            *)
(***************************************************************************)
UpperStr == "ABCDEFGHIJKLMNOPQRSTUVWXYZ"
LowerStr == "abcdefghijklmnopqrstuvwxyz"
DigitStr == "0123456789"

Ch(s, i) == SubSeq(s, i, i)

CharsOf(s) == {Ch(s, i) : i \in 1..Len(s)}

UpperSet == CharsOf(UpperStr)
LowerSet == CharsOf(LowerStr)
DigitSet == CharsOf(DigitStr)
\* \w, \s and the characters "." does not match
WordSet == UpperSet \cup LowerSet \cup DigitSet \cup {"_"}
SpaceSet == {" ", "\t", "\n"}
LineEndSet == {"\n"}

LowerFn == [c \in UpperSet |-> Ch(LowerStr, CHOOSE j \in 1..Len(UpperStr) : Ch(UpperStr, j) = c)]
UpperFn == [c \in LowerSet |-> Ch(UpperStr, CHOOSE j \in 1..Len(LowerStr) : Ch(LowerStr, j) = c)]

LowerCh(c) == IF c \in UpperSet THEN LowerFn[c] ELSE c
UpperCh(c) == IF c \in LowerSet THEN UpperFn[c] ELSE c

RECURSIVE toLowerCase(_)
toLowerCase(s) ==
  IF Len(s) = 0 THEN "" ELSE LowerCh(Ch(s, 1)) \o toLowerCase(SubSeq(s, 2, Len(s)))

RECURSIVE toUpperCase(_)
toUpperCase(s) ==
  IF Len(s) = 0 THEN "" ELSE UpperCh(Ch(s, 1)) \o toUpperCase(SubSeq(s, 2, Len(s)))

startsWith(s, p) == Len(p) <= Len(s) /\ SubSeq(s, 1, Len(p)) = p
endsWith(s, p) == Len(p) <= Len(s) /\ SubSeq(s, Len(s) - Len(p) + 1, Len(s)) = p

\* String.prototype.includes
includes(s, p) == \E i \in 1..(Len(s) + 1) : i + Len(p) - 1 <= Len(s) /\ SubSeq(s, i, i + Len(p) - 1) = p

RECURSIVE trimStart(_)
trimStart(s) ==
  IF Len(s) > 0 /\ Ch(s, 1) \in SpaceSet THEN trimStart(SubSeq(s, 2, Len(s))) ELSE s

RECURSIVE trimEnd(_)
trimEnd(s) ==
  IF Len(s) > 0 /\ Ch(s, Len(s)) \in SpaceSet THEN trimEnd(SubSeq(s, 1, Len(s) - 1)) ELSE s

trim(s) == trimEnd(trimStart(s))

\* value.slice(1, -1)
slice1(s) == SubSeq(s, 2, Len(s) - 1)

\* String.prototype.split(sep) for a one-character separator
RECURSIVE splitFrom(_, _, _, _)
splitFrom(s, sep, i, cur) ==
  IF i > Len(s) THEN <<cur>>
  ELSE IF Ch(s, i) = sep THEN <<cur>> \o splitFrom(s, sep, i + 1, "")
  ELSE splitFrom(s, sep, i + 1, cur \o Ch(s, i))

split(s, sep) == splitFrom(s, sep, 1, "")

\* Array.prototype.join
RECURSIVE join(_, _)
join(xs, sep) ==
  IF Len(xs) = 0 THEN ""
  ELSE IF Len(xs) = 1 THEN xs[1]
  ELSE xs[1] \o sep \o join(Tail(xs), sep)

\* String(parseInt(digits)): the decimal text of the number, leading zeros gone
RECURSIVE stripZeros(_)
stripZeros(s) ==
  IF Len(s) > 1 /\ Ch(s, 1) = "0" THEN stripZeros(SubSeq(s, 2, Len(s))) ELSE s

parseIntText(s) ==
  IF startsWith(s, "-")
  THEN (IF stripZeros(SubSeq(s, 2, Len(s))) = "0" THEN "0" ELSE "-" \o stripZeros(SubSeq(s, 2, Len(s))))
  ELSE stripZeros(s)

(***************************************************************************)
(* Regular expressions: trees, and the backtracking matcher.               *)
(***************************************************************************)
Cls(cs) == [k |-> "cls", neg |-> FALSE, cs |-> cs]
NotCls(cs) == [k |-> "cls", neg |-> TRUE, cs |-> cs]
Lit(str) == [k |-> "lit", s |-> str]
Rep(c, min, lazy) == [k |-> "rep", c |-> c, min |-> min, lazy |-> lazy]
Cat(ns) == [k |-> "cat", ns |-> ns]
Alt(ns) == [k |-> "alt", ns |-> ns]
Opt(n) == [k |-> "opt", n |-> n]
Grp(g, n) == [k |-> "grp", g |-> g, n |-> n]
GrpEnd(g, st) == [k |-> "end", g |-> g, st |-> st]
Ref(g) == [k |-> "ref", g |-> g]
Bol == [k |-> "bol"]
Eol == [k |-> "eol"]

\* \s+ \w+ \d+ . and friends
W == Cls(WordSet)
S == Cls(SpaceSet)
D == Cls(DigitSet)
Dot == NotCls(LineEndSet)
Plus(c) == Rep(c, 1, FALSE)
Star(c) == Rep(c, 0, FALSE)
LazyStar(c) == Rep(c, 0, TRUE)

MaxGroups == 5
NoCap == <<0, 0>>
NoCaps == [g \in 1..MaxGroups |-> NoCap]
Fail == [ok |-> FALSE, start |-> 0, end |-> 0, caps |-> NoCaps]

InCls(c, ch, ci) ==
  LET in == ch \in c.cs \/ (ci /\ (LowerCh(ch) \in c.cs \/ UpperCh(ch) \in c.cs))
  IN in # c.neg

EqText(a, b, ci) == IF ci THEN toLowerCase(a) = toLowerCase(b) ELSE a = b

\* the length of the longest run of characters of class c from position i
RECURSIVE Run(_, _, _, _)
Run(c, s, i, ci) ==
  IF i <= Len(s) /\ InCls(c, Ch(s, i), ci) THEN 1 + Run(c, s, i + 1, ci) ELSE 0

RECURSIVE M(_, _, _, _, _)
RECURSIVE TryLens(_, _, _, _, _, _, _, _)

\* the first way, in the engine's order, to match the nodes k from position i
M(k, s, i, caps, ci) ==
  IF Len(k) = 0 THEN [ok |-> TRUE, start |-> 0, end |-> i, caps |-> caps]
  ELSE
    LET h == Head(k)
        r == Tail(k)
    IN CASE h.k = "cls" ->
              IF i <= Len(s) /\ InCls(h, Ch(s, i), ci) THEN M(r, s, i + 1, caps, ci) ELSE Fail
         [] h.k = "lit" ->
              IF i + Len(h.s) - 1 <= Len(s) /\ EqText(SubSeq(s, i, i + Len(h.s) - 1), h.s, ci)
              THEN M(r, s, i + Len(h.s), caps, ci) ELSE Fail
         [] h.k = "rep" ->
              LET m == Run(h.c, s, i, ci)
              IN IF m < h.min THEN Fail
                 ELSE IF h.lazy THEN TryLens(r, s, i, caps, ci, h.min, m, 1)
                 ELSE TryLens(r, s, i, caps, ci, m, h.min, 0)
         [] h.k = "cat" -> M(h.ns \o r, s, i, caps, ci)
         [] h.k = "alt" ->
              IF Len(h.ns) = 0 THEN Fail
              ELSE LET first == M(<<Head(h.ns)>> \o r, s, i, caps, ci)
                   IN IF first.ok THEN first ELSE M(<<Alt(Tail(h.ns))>> \o r, s, i, caps, ci)
         [] h.k = "opt" ->
              LET with == M(<<h.n>> \o r, s, i, caps, ci)
              IN IF with.ok THEN with ELSE M(r, s, i, caps, ci)
         [] h.k = "grp" -> M(<<h.n, GrpEnd(h.g, i)>> \o r, s, i, caps, ci)
         [] h.k = "end" -> M(r, s, i, [caps EXCEPT ![h.g] = <<h.st, i>>], ci)
         [] h.k = "ref" ->
              LET t == SubSeq(s, caps[h.g][1], caps[h.g][2] - 1)
              IN IF i + Len(t) - 1 <= Len(s) /\ EqText(SubSeq(s, i, i + Len(t) - 1), t, ci)
                 THEN M(r, s, i + Len(t), caps, ci) ELSE Fail
         [] h.k = "bol" -> IF i = 1 THEN M(r, s, i, caps, ci) ELSE Fail
         [] h.k = "eol" -> IF i = Len(s) + 1 THEN M(r, s, i, caps, ci) ELSE Fail

\* a repetition taking n characters, then n+1 (lazy, up = 1) or n-1 (greedy), to last
TryLens(r, s, i, caps, ci, n, last, up) ==
  LET here == M(r, s, i + n, caps, ci)
  IN IF here.ok THEN here
     ELSE IF n = last THEN Fail
     ELSE TryLens(r, s, i, caps, ci, IF up = 1 THEN n + 1 ELSE n - 1, last, up)

\* RegExp.prototype.exec without the g flag: the leftmost start that matches
RECURSIVE ExecFrom(_, _, _, _)
ExecFrom(re, s, i, ci) ==
  IF i > Len(s) + 1 THEN Fail
  ELSE LET here == M(<<re>>, s, i, NoCaps, ci)
       IN IF here.ok THEN [here EXCEPT !.start = i] ELSE ExecFrom(re, s, i + 1, ci)

Exec(re, s, ci) == ExecFrom(re, s, 1, ci)

\* RegExp.prototype.test
Test(re, s, ci) == Exec(re, s, ci).ok

\* capture group g of a match: the text, and whether the group took part
Defined(m, g) == m.caps[g] # NoCap
Group(m, s, g) == IF Defined(m, g) THEN SubSeq(s, m.caps[g][1], m.caps[g][2] - 1) ELSE ""

(***************************************************************************)
(* Results, builder calls and typed values.                                *)
(***************************************************************************)
\* a JavaScript value: string, number (its decimal text), bool, null, list
StrVal(s) == [t |-> "string", v |-> s, items |-> <<>>]
NumVal(s) == [t |-> "number", v |-> s, items |-> <<>>]
BoolVal(s) == [t |-> "bool", v |-> s, items |-> <<>>]
NullVal == [t |-> "null", v |-> "null", items |-> <<>>]
ListVal(xs) == [t |-> "list", v |-> "", items |-> xs]
\* an AST node handed through unchanged by parseValue (value.value || value)
NodeVal(s) == [t |-> "node", v |-> s, items |-> <<>>]

\* one call on the query builder: method, column or field list, value, record
Call(m, col, val, rec) == [m |-> m, col |-> col, val |-> val, rec |-> rec]
From(table) == Call("from", table, NullVal, <<>>)
Select(fields) == Call("select", fields, NullVal, <<>>)
SelectBack == Call("select", "", NullVal, <<>>)
Insert(rec) == Call("insert", "", NullVal, rec)
Update(rec) == Call("update", "", NullVal, rec)
Delete == Call("delete", "", NullVal, <<>>)
Filter(m, col, val) == Call(m, col, val, <<>>)
Or(expr) == Call("or", expr, NullVal, <<>>)
Order(col, asc) == Call("order", col, BoolVal(IF asc THEN "true" ELSE "false"), <<>>)
Limit(n) == Call("limit", "", n, <<>>)

FilterMethods == {"eq", "neq", "gt", "gte", "lt", "lte", "like", "ilike", "in", "is", "or"}

\* record[col] = val on a JavaScript object: a later key replaces an earlier one
RECURSIVE SetKey(_, _, _)
SetKey(rec, col, val) ==
  IF Len(rec) = 0 THEN <<[col |-> col, val |-> val]>>
  ELSE IF rec[1].col = col THEN <<[col |-> col, val |-> val]>> \o Tail(rec)
  ELSE <<rec[1]>> \o SetKey(Tail(rec), col, val)

\* {data, error}
Result(data, isErr, message, statusCode) ==
  [data |-> data, error |-> isErr, message |-> message, statusCode |-> statusCode]
NoResult == Result("none", FALSE, "", "")

\* what the awaited query yields: rows, the backend's own error, or a rejection
BackendOutcomes == {"rows", "error", "reject"}
BackendErrorMessage == "backend error"
BackendRejectMessage == "fetch failed"

handleError(message, statusCode) ==
  Result("null", TRUE, IF message = "" THEN "Failed to execute query" ELSE message, statusCode)

\* what running a piece of code gives: the builder calls made, and either the
\* value returned or the message of the error thrown
\* (sent: the query was awaited, that is, the request went to the backend)
Returned(calls, result) ==
  [calls |-> calls, sent |-> FALSE, thrown |-> FALSE, message |-> "", result |-> result]
Thrown(calls, message) ==
  [calls |-> calls, sent |-> FALSE, thrown |-> TRUE, message |-> message, result |-> NoResult]

\* const { data, error } = await query; return { data, error }
Await(calls, backend) ==
  CASE backend = "rows" ->
         [Returned(calls, Result("rows", FALSE, "", "")) EXCEPT !.sent = TRUE]
    [] backend = "error" ->
         [Returned(calls, Result("null", TRUE, BackendErrorMessage, "undefined")) EXCEPT !.sent = TRUE]
    [] backend = "reject" ->
         [Thrown(calls, BackendRejectMessage) EXCEPT !.sent = TRUE]

(***************************************************************************)
(* preprocessSQL and the four classifiers.                                 *)
(***************************************************************************)
\* sql.replace(/\s+/g, ' '): the characters lo..hi of sql, each run of blanks as one
RECURSIVE collapseRange(_, _, _)
collapseRange(sql, lo, hi) ==
  IF lo > hi THEN ""
  ELSE IF lo = hi
  THEN (IF Ch(sql, lo) \notin SpaceSet THEN Ch(sql, lo)
        ELSE IF lo > 1 /\ Ch(sql, lo - 1) \in SpaceSet THEN "" ELSE " ")
  ELSE collapseRange(sql, lo, (lo + hi) \div 2) \o collapseRange(sql, (lo + hi) \div 2 + 1, hi)

collapseSpaces(sql) == collapseRange(sql, 1, Len(sql))

preprocessSQL(sql) == trim(collapseSpaces(sql))

Quote1 == "'"
Quote2 == "\""

\* ('[^']*'|"[^"]*"|\d+|\w+)
UpdateValueAlt ==
  Alt(<<Cat(<<Lit(Quote1), Star(NotCls({Quote1})), Lit(Quote1)>>),
        Cat(<<Lit(Quote2), Star(NotCls({Quote2})), Lit(Quote2)>>),
        Plus(D),
        Plus(W)>>)

deleteRegex ==
  Cat(<<Bol, Lit("DELETE"), Plus(S), Lit("FROM"), Plus(S), Plus(W),
        Opt(Cat(<<Plus(S), Lit("WHERE"), Plus(S), Plus(Dot)>>)), Eol>>)

updateRegex ==
  Cat(<<Bol, Lit("UPDATE"), Plus(S), Plus(W), Plus(S), Lit("SET"), Plus(S), Plus(W),
        Star(S), Lit("="), Star(S), Grp(1, UpdateValueAlt), Star(S),
        Opt(Grp(2, Cat(<<Lit("WHERE"), Plus(S), Plus(Dot)>>))), Eol>>)

insertRegex ==
  Cat(<<Bol, Lit("INSERT"), Plus(S), Lit("INTO"), Plus(S), Plus(W), Star(S),
        Lit("("), Plus(NotCls({")"})), Lit(")"), Star(S), Lit("VALUES"), Star(S),
        Lit("("), Plus(NotCls({")"})), Lit(")"), Eol>>)

hasCommaFieldsRegex ==
  Cat(<<Lit("SELECT"), Plus(S), NotCls({"*"}), Star(NotCls({","})), Lit(",")>>)

basicSelectRegex ==
  Cat(<<Bol, Lit("SELECT"), Plus(S), Star(Dot), Plus(S), Lit("FROM"), Plus(S), Plus(W),
        Opt(Grp(1, Cat(<<Plus(S), Lit("ORDER"), Plus(S), Lit("BY"), Plus(S), Plus(W),
                         Opt(Grp(2, Cat(<<Plus(S), Grp(3, Alt(<<Lit("ASC"), Lit("DESC")>>))>>)))>>))),
        Eol>>)

isSimpleDelete(sql) == Test(deleteRegex, trim(sql), TRUE)
isSimpleUpdate(sql) == Test(updateRegex, trim(sql), TRUE)
isSimpleInsert(sql) == Test(insertRegex, trim(sql), TRUE)
isSimpleSelect(sql) ==
  LET hasCommaFields == Test(hasCommaFieldsRegex, sql, FALSE)
      isBasicSelect == Test(basicSelectRegex, trim(sql), TRUE)
  IN hasCommaFields \/ isBasicSelect

(***************************************************************************)
(* Token coercion and the simple INSERT value scanner.                     *)
(***************************************************************************)
intRegex == Cat(<<Bol, Opt(Lit("-")), Plus(D), Eol>>)
floatRegex == Cat(<<Bol, Opt(Lit("-")), Star(D), Lit("."), Plus(D), Eol>>)

parseInsertValue(value) ==
  IF (startsWith(value, Quote2) /\ endsWith(value, Quote2)) \/
     (startsWith(value, Quote1) /\ endsWith(value, Quote1))
  THEN StrVal(slice1(value))
  ELSE IF Test(intRegex, value, FALSE) THEN NumVal(parseIntText(value))
  ELSE IF Test(floatRegex, value, FALSE) THEN NumVal(value)
  ELSE IF toLowerCase(value) = "true" THEN BoolVal("true")
  ELSE IF toLowerCase(value) = "false" THEN BoolVal("false")
  ELSE IF toLowerCase(value) = "null" THEN NullVal
  ELSE StrVal(value)

parseUpdateValue(value) ==
  IF (startsWith(value, Quote1) /\ endsWith(value, Quote1)) \/
     (startsWith(value, Quote2) /\ endsWith(value, Quote2))
  THEN StrVal(slice1(value))
  ELSE IF Test(intRegex, value, FALSE) THEN NumVal(parseIntText(value))
  ELSE IF Test(floatRegex, value, FALSE) THEN NumVal(value)
  ELSE IF toLowerCase(value) = "true" THEN BoolVal("true")
  ELSE IF toLowerCase(value) = "false" THEN BoolVal("false")
  ELSE IF toLowerCase(value) = "null" THEN NullVal
  ELSE StrVal(value)

\* the for loop of parseInsertValues from character i on
RECURSIVE scanInsertValues(_, _, _, _, _, _)
scanInsertValues(valueStr, i, values, currentValue, inQuote, quoteChar) ==
  IF i > Len(valueStr)
  THEN (IF trim(currentValue) # ""
        THEN Append(values, parseInsertValue(trim(currentValue)))
        ELSE values)
  ELSE LET char == Ch(valueStr, i)
       IN IF (char = Quote2 \/ char = Quote1) /\ (~inQuote \/ quoteChar = char)
          THEN scanInsertValues(valueStr, i + 1, values, currentValue, ~inQuote,
                                IF ~inQuote THEN char ELSE quoteChar)
          ELSE IF char = "," /\ ~inQuote
          THEN scanInsertValues(valueStr, i + 1,
                                Append(values, parseInsertValue(trim(currentValue))),
                                "", inQuote, quoteChar)
          ELSE scanInsertValues(valueStr, i + 1, values, currentValue \o char, inQuote, quoteChar)

parseInsertValues(valueStr) == scanInsertValues(valueStr, 1, <<>>, "", FALSE, "")

(***************************************************************************)
(* parseSimpleWhere: the single-condition WHERE parser of the simple path. *)
(***************************************************************************)
IdentStart == Cls(UpperSet \cup LowerSet \cup {"_"})
Ident == Cat(<<IdentStart, Star(W)>>)
CompareOp == Alt(<<Lit("!="), Lit("<>"), Lit(">"), Lit(">="), Lit("<"), Lit("<=")>>)
AnyQuote == Cls({Quote1, Quote2})

quotedConditionRegex ==
  Cat(<<Grp(1, Plus(W)), Star(S), Lit("="), Star(S), Grp(2, AnyQuote),
        Grp(3, LazyStar(Dot)), Ref(2)>>)
numberConditionRegex ==
  Cat(<<Grp(1, Plus(W)), Star(S), Lit("="), Star(S), Grp(2, Plus(D))>>)
unquotedConditionRegex ==
  Cat(<<Grp(1, Plus(W)), Star(S), Lit("="), Star(S), Grp(2, Ident)>>)
quotedComparisonRegex ==
  Cat(<<Grp(1, Plus(W)), Star(S), Grp(2, CompareOp), Star(S), Grp(3, AnyQuote),
        Grp(4, LazyStar(Dot)), Ref(3)>>)
unquotedComparisonRegex ==
  Cat(<<Grp(1, Plus(W)), Star(S), Grp(2, CompareOp), Star(S),
        Grp(3, Alt(<<Ident, Plus(D)>>))>>)
digitsRegex == Cat(<<Bol, Plus(D), Eol>>)

\* the filter call applyOperator adds, or none (query returned as it is)
applyOperator(column, operator, value) ==
  CASE operator = "=" -> <<Filter("eq", column, value)>>
    [] operator \in {"!=", "<>"} -> <<Filter("neq", column, value)>>
    [] operator = ">" -> <<Filter("gt", column, value)>>
    [] operator = ">=" -> <<Filter("gte", column, value)>>
    [] operator = "<" -> <<Filter("lt", column, value)>>
    [] operator = "<=" -> <<Filter("lte", column, value)>>
    [] OTHER -> <<>>

\* parseSimpleWhere trying the two comparison patterns before the three
\* equality patterns
parseSimpleWhereComparisonFirst(whereClause) ==
  LET quotedCondition == Exec(quotedConditionRegex, whereClause, FALSE)
      numberCondition == Exec(numberConditionRegex, whereClause, FALSE)
      unquotedCondition == Exec(unquotedConditionRegex, whereClause, FALSE)
      quotedComparisonMatch == Exec(quotedComparisonRegex, whereClause, FALSE)
      unquotedComparisonMatch == Exec(unquotedComparisonRegex, whereClause, FALSE)
  IN IF quotedComparisonMatch.ok
     THEN applyOperator(Group(quotedComparisonMatch, whereClause, 1),
                        Group(quotedComparisonMatch, whereClause, 2),
                        StrVal(Group(quotedComparisonMatch, whereClause, 4)))
     ELSE IF unquotedComparisonMatch.ok
     THEN LET value == Group(unquotedComparisonMatch, whereClause, 3)
              finalValue == IF Test(digitsRegex, value, FALSE)
                            THEN NumVal(parseIntText(value)) ELSE StrVal(value)
          IN applyOperator(Group(unquotedComparisonMatch, whereClause, 1),
                           Group(unquotedComparisonMatch, whereClause, 2), finalValue)
     ELSE IF quotedCondition.ok
     THEN <<Filter("eq", Group(quotedCondition, whereClause, 1),
                   StrVal(Group(quotedCondition, whereClause, 3)))>>
     ELSE IF numberCondition.ok
     THEN <<Filter("eq", Group(numberCondition, whereClause, 1),
                   NumVal(parseIntText(Group(numberCondition, whereClause, 2))))>>
     ELSE IF unquotedCondition.ok
     THEN <<Filter("eq", Group(unquotedCondition, whereClause, 1),
                   StrVal(Group(unquotedCondition, whereClause, 2)))>>
     ELSE <<>>

\* the filter calls parseSimpleWhere adds to the query
parseSimpleWhere(whereClause) ==
  LET quotedCondition == Exec(quotedConditionRegex, whereClause, FALSE)
      numberCondition == Exec(numberConditionRegex, whereClause, FALSE)
      unquotedCondition == Exec(unquotedConditionRegex, whereClause, FALSE)
      quotedComparisonMatch == Exec(quotedComparisonRegex, whereClause, FALSE)
      unquotedComparisonMatch == Exec(unquotedComparisonRegex, whereClause, FALSE)
  IN IF quotedCondition.ok
     THEN <<Filter("eq", Group(quotedCondition, whereClause, 1),
                   StrVal(Group(quotedCondition, whereClause, 3)))>>
     ELSE IF numberCondition.ok
     THEN <<Filter("eq", Group(numberCondition, whereClause, 1),
                   NumVal(parseIntText(Group(numberCondition, whereClause, 2))))>>
     ELSE IF unquotedCondition.ok
     THEN <<Filter("eq", Group(unquotedCondition, whereClause, 1),
                   StrVal(Group(unquotedCondition, whereClause, 2)))>>
     ELSE IF quotedComparisonMatch.ok
     THEN applyOperator(Group(quotedComparisonMatch, whereClause, 1),
                        Group(quotedComparisonMatch, whereClause, 2),
                        StrVal(Group(quotedComparisonMatch, whereClause, 4)))
     ELSE IF unquotedComparisonMatch.ok
     THEN LET value == Group(unquotedComparisonMatch, whereClause, 3)
              finalValue == IF Test(digitsRegex, value, FALSE)
                            THEN NumVal(parseIntText(value)) ELSE StrVal(value)
          IN applyOperator(Group(unquotedComparisonMatch, whereClause, 1),
                           Group(unquotedComparisonMatch, whereClause, 2), finalValue)
     ELSE <<>>

(***************************************************************************)
(* The simple-statement handlers.  Each takes the text and what the        *)
(* awaited query will yield, and gives the calls made and the Result.      *)
(***************************************************************************)
\* .map(f => f.trim())
RECURSIVE mapTrim(_)
mapTrim(xs) == IF Len(xs) = 0 THEN <<>> ELSE <<trim(xs[1])>> \o mapTrim(Tail(xs))

\* columns.forEach((col, index) => { insertData[col] = values[index]; })
RECURSIVE zipRecord(_, _, _, _)
zipRecord(columns, values, index, rec) ==
  IF index > Len(columns) THEN rec
  ELSE zipRecord(columns, values, index + 1, SetKey(rec, columns[index], values[index]))

\* a handler without its catch block: what the try block threw leaves the handler
RethrowSimple(r, fallbackMessage) == r

\* catch (error) { return this.handleError(error.message || fallbackMessage, 400); }
CatchSimple(r, fallbackMessage) ==
  IF r.thrown
  THEN [Returned(r.calls, handleError(IF r.message = "" THEN fallbackMessage ELSE r.message, "400"))
          EXCEPT !.sent = r.sent]
  ELSE r

insertCaptureRegex ==
  Cat(<<Lit("INSERT"), Plus(S), Lit("INTO"), Plus(S), Grp(1, Plus(W)), Star(S),
        Lit("("), Grp(2, Plus(NotCls({")"}))), Lit(")"), Star(S), Lit("VALUES"), Star(S),
        Lit("("), Grp(3, Plus(NotCls({")"}))), Lit(")")>>)

handleSimpleInsertTry(sqlQuery, backend) ==
  LET insertMatch == Exec(insertCaptureRegex, sqlQuery, TRUE)
      tableName == Group(insertMatch, sqlQuery, 1)
      columns == mapTrim(split(Group(insertMatch, sqlQuery, 2), ","))
      values == parseInsertValues(Group(insertMatch, sqlQuery, 3))
  IN IF ~insertMatch.ok THEN Thrown(<<>>, "Invalid INSERT statement format")
     ELSE IF Len(columns) # Len(values)
     THEN Thrown(<<>>, "Column count does not match value count")
     ELSE Await(<<From(tableName), Insert(zipRecord(columns, values, 1, <<>>)), SelectBack>>,
                backend)

handleSimpleInsert(sqlQuery, backend) ==
  CatchSimple(handleSimpleInsertTry(sqlQuery, backend), "Failed to execute simple insert")

updateCaptureRegex ==
  Cat(<<Lit("UPDATE"), Plus(S), Grp(1, Plus(W)), Plus(S), Lit("SET"), Plus(S),
        Grp(2, Plus(W)), Star(S), Lit("="), Star(S), Grp(3, UpdateValueAlt),
        Opt(Cat(<<Plus(S), Lit("WHERE"), Plus(S), Grp(4, Plus(Dot))>>))>>)

handleSimpleUpdateTry(sqlQuery, backend) ==
  LET updateMatch == Exec(updateCaptureRegex, sqlQuery, TRUE)
      tableName == Group(updateMatch, sqlQuery, 1)
      column == Group(updateMatch, sqlQuery, 2)
      value == parseUpdateValue(Group(updateMatch, sqlQuery, 3))
      whereClause == Group(updateMatch, sqlQuery, 4)
      filters == IF whereClause # "" THEN parseSimpleWhere(trim(whereClause)) ELSE <<>>
  IN IF ~updateMatch.ok THEN Thrown(<<>>, "Invalid UPDATE statement format")
     ELSE Await(<<From(tableName), Update(SetKey(<<>>, column, value))>> \o filters
                \o <<SelectBack>>, backend)

handleSimpleUpdate(sqlQuery, backend) ==
  CatchSimple(handleSimpleUpdateTry(sqlQuery, backend), "Failed to execute simple update")

deleteCaptureRegex ==
  Cat(<<Lit("DELETE"), Plus(S), Lit("FROM"), Plus(S), Grp(1, Plus(W)),
        Opt(Cat(<<Plus(S), Lit("WHERE"), Plus(S), Grp(2, Plus(Dot))>>))>>)

handleSimpleDeleteTry(sqlQuery, backend) ==
  LET deleteMatch == Exec(deleteCaptureRegex, sqlQuery, TRUE)
      tableName == Group(deleteMatch, sqlQuery, 1)
      whereClause == Group(deleteMatch, sqlQuery, 2)
      filters == IF whereClause # "" THEN parseSimpleWhere(trim(whereClause)) ELSE <<>>
  IN IF ~deleteMatch.ok THEN Thrown(<<>>, "Invalid DELETE statement format")
     ELSE Await(<<From(tableName), Delete>> \o filters, backend)

handleSimpleDelete(sqlQuery, backend) ==
  CatchSimple(handleSimpleDeleteTry(sqlQuery, backend), "Failed to execute simple delete")

selectCaptureRegex ==
  Cat(<<Lit("SELECT"), Plus(S), Grp(1, LazyStar(Dot)), Plus(S), Lit("FROM"), Plus(S),
        Grp(2, Plus(W)),
        Opt(Cat(<<Plus(S), Lit("WHERE"), Plus(S), Grp(3, LazyStar(Dot))>>)),
        Opt(Cat(<<Plus(S), Lit("ORDER"), Plus(S), Lit("BY"), Plus(S), Grp(4, Plus(W)),
                  Opt(Cat(<<Plus(S), Grp(5, Alt(<<Lit("ASC"), Lit("DESC")>>))>>))>>)),
        Eol>>)

handleSimpleSelectTry(sqlQuery, backend) ==
  LET selectMatch == Exec(selectCaptureRegex, sqlQuery, TRUE)
      fields == Group(selectMatch, sqlQuery, 1)
      tableName == Group(selectMatch, sqlQuery, 2)
      whereClause == Group(selectMatch, sqlQuery, 3)
      orderColumn == Group(selectMatch, sqlQuery, 4)
      orderDirection == Group(selectMatch, sqlQuery, 5)
      cleanFields == join(mapTrim(split(fields, ",")), ",")
      selected == IF trim(fields) = "*" THEN <<Select("*")>> ELSE <<Select(cleanFields)>>
      filters == IF whereClause # "" THEN parseSimpleWhere(trim(whereClause)) ELSE <<>>
      ascending == orderDirection = "" \/ toUpperCase(orderDirection) = "ASC"
      ordered == IF orderColumn # "" THEN <<Order(orderColumn, ascending)>> ELSE <<>>
  IN IF ~selectMatch.ok THEN Thrown(<<>>, "Invalid SELECT statement format")
     ELSE Await(<<From(tableName)>> \o selected \o filters \o ordered, backend)

\* handleSimpleSelect without its try/catch
handleSimpleSelectUncaught(sqlQuery, backend) == handleSimpleSelectTry(sqlQuery, backend)

handleSimpleSelect(sqlQuery, backend) ==
  CatchSimple(handleSimpleSelectTry(sqlQuery, backend), "Failed to execute simple query")

(***************************************************************************)
(* The AST translator.  A node is a record of the parser's shape; NoNode   *)
(* stands for null or undefined.                                           *)
(***************************************************************************)
NoNode == [type |-> "none"]
IsNode(n) == n.type # "none"

\* String(value) of a template literal
RECURSIVE ToText(_)
ToText(val) ==
  CASE val.t = "list" ->
         IF Len(val.items) = 0 THEN ""
         ELSE IF Len(val.items) = 1 THEN ToText(val.items[1])
         ELSE ToText(val.items[1]) \o "," \o ToText(ListVal(Tail(val.items)))
    [] val.t = "node" -> "[object Object]"
    [] OTHER -> val.v

RECURSIVE parseValue(_)
RECURSIVE parseValues(_)
parseValue(value) ==
  IF ~IsNode(value) THEN NullVal
  ELSE CASE value.type = "string" -> StrVal(value.value)
         [] value.type = "number" -> NumVal(value.value)
         [] value.type = "bool" -> BoolVal(value.value)
         [] value.type = "null" -> NullVal
         [] value.type = "expr_list" -> ListVal(parseValues(value.list))
         [] OTHER -> IF value.value # "" THEN StrVal(value.value) ELSE NodeVal(value.type)

\* value.value.map(v => this.parseValue(v))
parseValues(nodes) ==
  IF Len(nodes) = 0 THEN <<>> ELSE <<parseValue(nodes[1])>> \o parseValues(Tail(nodes))

\* left.column of a node that may not be a column reference
ColumnOf(left) == IF left.type = "column_ref" THEN left.column ELSE "undefined"

\* buildConditionString writing a fragment for every operator, AND and OR included
buildConditionStringAny(condition) ==
  IF condition.type = "binary_expr"
  THEN [thrown |-> FALSE, message |-> "",
        text |-> ColumnOf(condition.left) \o "." \o toLowerCase(condition.operator) \o "."
                 \o ToText(parseValue(condition.right))]
  ELSE [thrown |-> TRUE, text |-> "", message |-> "Invalid condition format"]

buildConditionString(condition) ==
  IF condition.type = "binary_expr"
  THEN LET operator == condition.operator
           column == ColumnOf(condition.left)
           value == parseValue(condition.right)
           frag(op) == [thrown |-> FALSE, message |-> "", text |-> column \o "." \o op \o "." \o ToText(value)]
       IN CASE operator = "=" -> frag("eq")
            [] operator \in {"!=", "<>"} -> frag("neq")
            [] operator = ">" -> frag("gt")
            [] operator = ">=" -> frag("gte")
            [] operator = "<" -> frag("lt")
            [] operator = "<=" -> frag("lte")
            [] operator = "LIKE" -> frag("like")
            [] operator = "ILIKE" -> frag("ilike")
            [] operator = "IN" ->
                 [thrown |-> FALSE, message |-> "", text |-> column \o ".in.(" \o ToText(value) \o ")"]
            [] operator = "IS" -> frag("is")
            [] OTHER -> [thrown |-> TRUE, text |-> "",
                         message |-> "Unsupported operator in OR condition: " \o operator]
  ELSE [thrown |-> TRUE, text |-> "", message |-> "Invalid condition format"]

\* the filter calls added to the query, or the error thrown
RECURSIVE applyWhereConditions(_)
applyWhereConditions(where) ==
  IF where.type = "binary_expr"
  THEN LET operator == where.operator
           left == where.left
           right == where.right
           column == ColumnOf(left)
           value == parseValue(right)
           one(m) == Returned(<<Filter(m, column, value)>>, NoResult)
       IN CASE operator = "AND" ->
                 LET l == applyWhereConditions(left)
                     r == applyWhereConditions(right)
                 IN IF l.thrown THEN l
                    ELSE IF r.thrown THEN Thrown(l.calls \o r.calls, r.message)
                    ELSE Returned(l.calls \o r.calls, NoResult)
            [] operator = "OR" ->
                 LET leftCondition == buildConditionString(left)
                     rightCondition == buildConditionString(right)
                 IN IF leftCondition.thrown THEN Thrown(<<>>, leftCondition.message)
                    ELSE IF rightCondition.thrown THEN Thrown(<<>>, rightCondition.message)
                    ELSE Returned(<<Or(leftCondition.text \o "," \o rightCondition.text)>>, NoResult)
            [] operator = "=" -> one("eq")
            [] operator \in {"!=", "<>"} -> one("neq")
            [] operator = ">" -> one("gt")
            [] operator = ">=" -> one("gte")
            [] operator = "<" -> one("lt")
            [] operator = "<=" -> one("lte")
            [] operator = "LIKE" -> one("like")
            [] operator = "ILIKE" -> one("ilike")
            [] operator = "IN" ->
                 Returned(<<Filter("in", column,
                                   IF value.t = "list" THEN value ELSE ListVal(<<value>>))>>, NoResult)
            [] operator = "IS" -> one("is")
            [] OTHER -> Thrown(<<>>, "Unsupported operator: " \o operator)
  ELSE Returned(<<>>, NoResult)

\* if (where) { query = this.applyWhereConditions(query, where); }
WhereOf(ast) == IF IsNode(ast.where) THEN applyWhereConditions(ast.where) ELSE Returned(<<>>, NoResult)

\* !x || !x[0] || !x[0].table
NoTable(x) == Len(x) = 0 \/ x[1].table = ""

\* columns.map(col => ...).join(',')
RECURSIVE selectFieldsOf(_)
selectFieldsOf(columns) ==
  IF Len(columns) = 0 THEN <<>>
  ELSE LET col == columns[1]
           field == IF col.column # ""
                    THEN (IF col.as # "" THEN col.column \o ":" \o col.as ELSE col.column)
                    ELSE "*"
       IN <<field>> \o selectFieldsOf(Tail(columns))

\* the order calls of a handler that takes only a missing type for ascending
RECURSIVE orderCallsUntyped(_)
orderCallsUntyped(orderby) ==
  IF Len(orderby) = 0 THEN <<>>
  ELSE <<Order(orderby[1].column, orderby[1].type = "")>> \o orderCallsUntyped(Tail(orderby))

\* orderby.forEach(order => { query = query.order(column, { ascending }); })
RECURSIVE orderCalls(_)
orderCalls(orderby) ==
  IF Len(orderby) = 0 THEN <<>>
  ELSE LET order == orderby[1]
           ascending == order.type = "ASC" \/ order.type = ""
       IN <<Order(order.column, ascending)>> \o orderCalls(Tail(orderby))

handleSelect(ast, backend) ==
  IF NoTable(ast.from) THEN Thrown(<<>>, "Invalid table name in query")
  ELSE LET tableName == ast.from[1].table
           selected == IF ast.columns.star THEN <<Select("*")>>
                       ELSE <<Select(join(selectFieldsOf(ast.columns.list), ","))>>
           filtered == WhereOf(ast)
           limited == IF Len(ast.limit) > 0
                      THEN <<Limit(NumVal(parseIntText(ast.limit[1].value)))>> ELSE <<>>
       IN IF filtered.thrown THEN Thrown(<<From(tableName)>> \o selected, filtered.message)
          ELSE Await(<<From(tableName)>> \o selected \o filtered.calls
                     \o orderCalls(ast.orderby) \o limited, backend)

\* columns.forEach((col, index) => { insertData[col] = this.parseValue(values[0].value[index]); })
RECURSIVE zipNodes(_, _, _, _)
zipNodes(columns, nodes, index, rec) ==
  IF index > Len(columns) THEN rec
  ELSE zipNodes(columns, nodes, index + 1,
                SetKey(rec, columns[index],
                       parseValue(IF index <= Len(nodes) THEN nodes[index] ELSE NoNode)))

handleInsert(ast, backend) ==
  IF NoTable(ast.table) THEN Thrown(<<>>, "Invalid table name in INSERT query")
  ELSE IF ~ast.hasColumns \/ Len(ast.values) = 0 THEN Thrown(<<>>, "Invalid INSERT statement")
  ELSE Await(<<From(ast.table[1].table),
               Insert(zipNodes(ast.columns, ast.values[1], 1, <<>>)), SelectBack>>, backend)

\* set.forEach(item => { updateData[item.column] = this.parseValue(item.value); })
RECURSIVE setRecord(_, _)
setRecord(set, rec) ==
  IF Len(set) = 0 THEN rec
  ELSE setRecord(Tail(set), SetKey(rec, set[1].column, parseValue(set[1].value)))

\* handleUpdate applying the WHERE conditions to the builder before update()
handleUpdateFilterFirst(ast, backend) ==
  IF NoTable(ast.table) THEN Thrown(<<>>, "Invalid table name in UPDATE query")
  ELSE IF ~ast.hasSet THEN Thrown(<<>>, "Invalid UPDATE statement")
  ELSE LET filtered == WhereOf(ast)
       IN IF filtered.thrown THEN Thrown(<<From(ast.table[1].table)>>, filtered.message)
          ELSE Await(<<From(ast.table[1].table)>> \o filtered.calls
                     \o <<Update(setRecord(ast.set, <<>>)), SelectBack>>, backend)

handleUpdate(ast, backend) ==
  IF NoTable(ast.table) THEN Thrown(<<>>, "Invalid table name in UPDATE query")
  ELSE IF ~ast.hasSet THEN Thrown(<<>>, "Invalid UPDATE statement")
  ELSE LET start == <<From(ast.table[1].table), Update(setRecord(ast.set, <<>>))>>
           filtered == WhereOf(ast)
       IN IF filtered.thrown THEN Thrown(start, filtered.message)
          ELSE Await(start \o filtered.calls \o <<SelectBack>>, backend)

handleDelete(ast, backend) ==
  IF NoTable(ast.from) THEN Thrown(<<>>, "Invalid table name in DELETE query")
  ELSE LET start == <<From(ast.from[1].table), Delete>>
           filtered == WhereOf(ast)
       IN IF filtered.thrown THEN Thrown(start, filtered.message)
          ELSE Await(start \o filtered.calls, backend)

(***************************************************************************)
(* The full SQL parser, parser.astify(sql, { database: 'mysql' }): a       *)
(* library outside the repository.  Modelled on the supported surface:     *)
(* the text is cut into tokens and parsed by recursive descent into the    *)
(* tree shapes the handlers consume; any other text is a syntax error,     *)
(* whose message starts with "Expected".                                   *)
(***************************************************************************)
SyntaxErrorMessage == "Expected \"#\", \"--\", \"/*\" or [ \\t\\n\\r] but end of input found."

ReservedWords ==
  {"SELECT", "FROM", "WHERE", "ORDER", "BY", "LIMIT", "AND", "OR", "INSERT", "INTO",
   "VALUES", "UPDATE", "SET", "DELETE", "AS", "ASC", "DESC", "IN", "IS", "NOT", "NULL",
   "TRUE", "FALSE", "LIKE", "SHOW", "TABLES"}

Token(k, s) == [k |-> k, s |-> s]
EofToken == Token("eof", "")
TwoCharSyms == {"!=", "<>", "<=", ">="}
OneCharSyms == {",", "(", ")", "*", ";", "=", "<", ">", "%", "+", "-"}

\* the position of the next character q from i on, or 0
RECURSIVE FindChar(_, _, _)
FindChar(s, q, i) ==
  IF i > Len(s) THEN 0 ELSE IF Ch(s, i) = q THEN i ELSE FindChar(s, q, i + 1)

RECURSIVE Lex(_, _)
Lex(s, i) ==
  IF i > Len(s) THEN <<>>
  ELSE LET c == Ch(s, i)
       IN IF c \in SpaceSet THEN Lex(s, i + 1)
          ELSE IF c \in DigitSet
          THEN LET n == Run(D, s, i, FALSE)
                   frac == IF i + n <= Len(s) /\ Ch(s, i + n) = "."
                           THEN Run(D, s, i + n + 1, FALSE) ELSE 0
                   len == IF frac > 0 THEN n + 1 + frac ELSE n
               IN <<Token("num", SubSeq(s, i, i + len - 1))>> \o Lex(s, i + len)
          ELSE IF c \in WordSet
          THEN LET n == Run(W, s, i, FALSE)
               IN <<Token("word", SubSeq(s, i, i + n - 1))>> \o Lex(s, i + n)
          ELSE IF c \in {Quote1, Quote2}
          THEN LET close == FindChar(s, c, i + 1)
               IN IF close = 0 THEN <<Token("bad", c)>>
                  ELSE <<Token(IF c = Quote1 THEN "str1" ELSE "str2", SubSeq(s, i + 1, close - 1))>>
                       \o Lex(s, close + 1)
          ELSE IF i < Len(s) /\ SubSeq(s, i, i + 1) \in TwoCharSyms
          THEN <<Token("sym", SubSeq(s, i, i + 1))>> \o Lex(s, i + 2)
          ELSE IF c \in OneCharSyms THEN <<Token("sym", c)>> \o Lex(s, i + 1)
          ELSE <<Token("bad", c)>>

Tok(ts, p) == IF p <= Len(ts) THEN ts[p] ELSE EofToken
IsKw(tok, kw) == tok.k = "word" /\ toUpperCase(tok.s) = kw
IsSym(tok, s) == tok.k = "sym" /\ tok.s = s
IsName(tok) == tok.k = "word" /\ toUpperCase(tok.s) \notin ReservedWords

\* tree nodes
Leaf(type, column, value, list) ==
  [type |-> type, operator |-> "", left |-> NoNode, right |-> NoNode,
   column |-> column, value |-> value, list |-> list]
Binary(operator, left, right) ==
  [type |-> "binary_expr", operator |-> operator, left |-> left, right |-> right,
   column |-> "", value |-> "", list |-> <<>>]

\* what a parsing step gives: whether it matched, the next position, its tree
P(ok, p, n) == [ok |-> ok, p |-> p, n |-> n]
NoParse == P(FALSE, 0, NoNode)

CompareSyms == {"=", "!=", "<>", "<", "<=", ">", ">="}
ArithSyms == {"%", "+", "-"}

\* a literal or a column name (no parenthesised expression: none is among the inputs)
ParsePrimary(ts, p) ==
  LET tok == Tok(ts, p)
  IN CASE tok.k = "num" ->
            P(TRUE, p + 1, Leaf("number", "", IF includes(tok.s, ".") THEN tok.s ELSE parseIntText(tok.s), <<>>))
       [] tok.k = "str1" -> P(TRUE, p + 1, Leaf("single_quote_string", "", tok.s, <<>>))
       [] tok.k = "str2" -> P(TRUE, p + 1, Leaf("double_quote_string", "", tok.s, <<>>))
       [] IsKw(tok, "TRUE") -> P(TRUE, p + 1, Leaf("bool", "", "true", <<>>))
       [] IsKw(tok, "FALSE") -> P(TRUE, p + 1, Leaf("bool", "", "false", <<>>))
       [] IsKw(tok, "NULL") -> P(TRUE, p + 1, Leaf("null", "", "", <<>>))
       [] IsName(tok) -> P(TRUE, p + 1, Leaf("column_ref", tok.s, "", <<>>))
       [] OTHER -> NoParse

\* left operator right, when the right side parsed
Join(operator, l, r) ==
  IF r.ok THEN P(TRUE, r.p, Binary(operator, l.n, r.n)) ELSE NoParse

\* primary {, primary}: the trees, gathered in acc
RECURSIVE ParseList(_, _, _)
RECURSIVE ListAfter(_, _, _)
ParseList(ts, p, acc) == ListAfter(ts, ParsePrimary(ts, p), acc)
ListAfter(ts, e, acc) ==
  IF ~e.ok THEN NoParse
  ELSE IF IsSym(Tok(ts, e.p), ",") THEN ParseList(ts, e.p + 1, Append(acc, e.n))
  ELSE P(TRUE, e.p, Leaf("expr_list", "", "", Append(acc, e.n)))

\* primary [(% | + | -) primary]
ArithAfter(ts, l) ==
  IF ~l.ok THEN NoParse
  ELSE IF Tok(ts, l.p).k = "sym" /\ Tok(ts, l.p).s \in ArithSyms
  THEN Join(Tok(ts, l.p).s, l, ParsePrimary(ts, l.p + 1))
  ELSE l
ParseArith(ts, p) == ArithAfter(ts, ParsePrimary(ts, p))

\* arith [compare arith | LIKE arith | IS arith | IN ( list )]
InJoin(ts, l, items) ==
  IF items.ok /\ IsSym(Tok(ts, items.p), ")")
  THEN P(TRUE, items.p + 1, Binary("IN", l.n, items.n)) ELSE NoParse
CmpOp(ts, l, op) ==
  IF op.k = "sym" /\ op.s \in CompareSyms THEN Join(op.s, l, ParseArith(ts, l.p + 1))
  ELSE IF IsKw(op, "LIKE") \/ IsKw(op, "IS")
  THEN Join(toUpperCase(op.s), l, ParseArith(ts, l.p + 1))
  ELSE IF IsKw(op, "IN")
  THEN (IF IsSym(Tok(ts, l.p + 1), "(") THEN InJoin(ts, l, ParseList(ts, l.p + 2, <<>>))
        ELSE NoParse)
  ELSE l
CmpAfter(ts, l) == IF ~l.ok THEN NoParse ELSE CmpOp(ts, l, Tok(ts, l.p))
ParseCmp(ts, p) == CmpAfter(ts, ParseArith(ts, p))

\* cmp {AND cmp}, then {OR and}: AND binds tighter, both group to the left
RECURSIVE ParseAndRest(_, _)
ParseAndRest(ts, left) ==
  IF ~left.ok THEN NoParse
  ELSE IF IsKw(Tok(ts, left.p), "AND")
  THEN ParseAndRest(ts, Join("AND", left, ParseCmp(ts, left.p + 1)))
  ELSE left
ParseAnd(ts, p) == ParseAndRest(ts, ParseCmp(ts, p))

RECURSIVE ParseOrRest(_, _)
ParseOrRest(ts, left) ==
  IF ~left.ok THEN NoParse
  ELSE IF IsKw(Tok(ts, left.p), "OR")
  THEN ParseOrRest(ts, Join("OR", left, ParseAnd(ts, left.p + 1)))
  ELSE left
ParseExpr(ts, p) == ParseOrRest(ts, ParseAnd(ts, p))

\* [WHERE expr]
ParseWhere(ts, p) ==
  IF IsKw(Tok(ts, p), "WHERE") THEN ParseExpr(ts, p + 1) ELSE P(TRUE, p, NoNode)

\* the statement tree: the fields the handlers read
Ast(type, tables, columns, hasColumns, values, set) ==
  [type |-> type, from |-> tables, table |-> tables, columns |-> columns,
   hasColumns |-> hasColumns, values |-> values, set |-> set, hasSet |-> TRUE,
   where |-> NoNode, orderby |-> <<>>, limit |-> <<>>]
NoAst == Ast("none", <<>>, <<>>, FALSE, <<>>, <<>>)
Tables(name) == <<[table |-> name]>>

\* a step that gives a sequence instead of one tree
Q(ok, p, xs) == [ok |-> ok, p |-> p, xs |-> xs]
NoSeq == Q(FALSE, 0, <<>>)

\* what parsing a statement gives so far: whether it matched, the next position, the tree
St(ok, p, tree) == [ok |-> ok, p |-> p, ast |-> tree]
NoStatement == St(FALSE, 0, NoAst)

\* the statement so far, then [WHERE expr]
PutWhere(st, w) ==
  IF w.ok THEN St(TRUE, w.p, [st.ast EXCEPT !.where = w.n]) ELSE NoStatement
WithWhere(ts, st) == IF st.ok THEN PutWhere(st, ParseWhere(ts, st.p)) ELSE NoStatement

\* col [AS alias] {, col [AS alias]}; a number in the list is no column
RECURSIVE ParseColumns(_, _, _)
ParseColumns(ts, p, acc) ==
  LET tok == Tok(ts, p)
      isCol == IsName(tok)
      hasAs == IsKw(Tok(ts, p + 1), "AS") /\ IsName(Tok(ts, p + 2))
      item == [column |-> IF isCol THEN tok.s ELSE "", as |-> IF hasAs THEN Tok(ts, p + 2).s ELSE ""]
      next == IF hasAs THEN p + 3 ELSE p + 1
  IN IF ~(isCol \/ tok.k = "num") THEN NoSeq
     ELSE IF IsSym(Tok(ts, next), ",") THEN ParseColumns(ts, next + 1, Append(acc, item))
     ELSE Q(TRUE, next, Append(acc, item))

\* [ORDER BY col [ASC|DESC] {, col [ASC|DESC]}]
RECURSIVE ParseOrderItems(_, _, _)
ParseOrderItems(ts, p, acc) ==
  LET tok == Tok(ts, p)
      dir == Tok(ts, p + 1)
      hasDir == IsKw(dir, "ASC") \/ IsKw(dir, "DESC")
      item == [column |-> tok.s, type |-> IF hasDir THEN toUpperCase(dir.s) ELSE "ASC"]
      next == IF hasDir THEN p + 2 ELSE p + 1
  IN IF ~IsName(tok) THEN NoSeq
     ELSE IF IsSym(Tok(ts, next), ",") THEN ParseOrderItems(ts, next + 1, Append(acc, item))
     ELSE Q(TRUE, next, Append(acc, item))

ParseOrderBy(ts, p) ==
  IF IsKw(Tok(ts, p), "ORDER")
  THEN (IF IsKw(Tok(ts, p + 1), "BY") THEN ParseOrderItems(ts, p + 2, <<>>) ELSE NoSeq)
  ELSE Q(TRUE, p, <<>>)

PutOrder(st, o) ==
  IF o.ok THEN St(TRUE, o.p, [st.ast EXCEPT !.orderby = o.xs]) ELSE NoStatement
WithOrder(ts, st) == IF st.ok THEN PutOrder(st, ParseOrderBy(ts, st.p)) ELSE NoStatement

\* [LIMIT n]
ParseLimit(ts, p) ==
  IF IsKw(Tok(ts, p), "LIMIT")
  THEN (IF Tok(ts, p + 1).k = "num"
        THEN Q(TRUE, p + 2, <<Leaf("number", "", Tok(ts, p + 1).s, <<>>)>>) ELSE NoSeq)
  ELSE Q(TRUE, p, <<>>)

PutLimit(st, l) ==
  IF l.ok THEN St(TRUE, l.p, [st.ast EXCEPT !.limit = l.xs]) ELSE NoStatement
WithLimit(ts, st) == IF st.ok THEN PutLimit(st, ParseLimit(ts, st.p)) ELSE NoStatement

\* SELECT (* | columns) [FROM name]
SelectFrom(ts, star, cols) ==
  IF ~cols.ok THEN NoStatement
  ELSE IF IsKw(Tok(ts, cols.p), "FROM")
  THEN (IF IsName(Tok(ts, cols.p + 1))
        THEN St(TRUE, cols.p + 2,
                Ast("select", Tables(Tok(ts, cols.p + 1).s), [star |-> star, list |-> cols.xs],
                    TRUE, <<>>, <<>>))
        ELSE NoStatement)
  ELSE IF star THEN NoStatement
  ELSE St(TRUE, cols.p, Ast("select", <<>>, [star |-> star, list |-> cols.xs], TRUE, <<>>, <<>>))

SelectHead(ts) ==
  IF IsSym(Tok(ts, 2), "*") THEN SelectFrom(ts, TRUE, Q(TRUE, 3, <<>>))
  ELSE SelectFrom(ts, FALSE, ParseColumns(ts, 2, <<>>))

ParseSelect(ts) == WithLimit(ts, WithOrder(ts, WithWhere(ts, SelectHead(ts))))

\* name {, name}
RECURSIVE ParseNames(_, _, _)
ParseNames(ts, p, acc) ==
  IF ~IsName(Tok(ts, p)) THEN NoSeq
  ELSE IF IsSym(Tok(ts, p + 1), ",") THEN ParseNames(ts, p + 2, Append(acc, Tok(ts, p).s))
  ELSE Q(TRUE, p + 1, Append(acc, Tok(ts, p).s))

\* ( values ) {, ( values )}
RECURSIVE ParseTuples(_, _, _)
RECURSIVE TuplesAfter(_, _, _)
ParseTuples(ts, p, acc) ==
  IF IsSym(Tok(ts, p), "(") THEN TuplesAfter(ts, ParseList(ts, p + 1, <<>>), acc) ELSE NoSeq
TuplesAfter(ts, items, acc) ==
  IF ~items.ok \/ ~IsSym(Tok(ts, items.p), ")") THEN NoSeq
  ELSE IF IsSym(Tok(ts, items.p + 1), ",")
  THEN ParseTuples(ts, items.p + 2, Append(acc, items.n.list))
  ELSE Q(TRUE, items.p + 1, Append(acc, items.n.list))

\* INSERT INTO name [( names )] VALUES tuples
InsertValues(ts, hasCols, cols, tuples) ==
  IF tuples.ok
  THEN St(TRUE, tuples.p, Ast("insert", Tables(Tok(ts, 3).s), cols.xs, hasCols, tuples.xs, <<>>))
  ELSE NoStatement
InsertColumns(ts, hasCols, cols) ==
  IF ~cols.ok \/ (hasCols /\ ~IsSym(Tok(ts, cols.p), ")")) THEN NoStatement
  ELSE IF ~IsKw(Tok(ts, cols.p + 1), "VALUES") THEN NoStatement
  ELSE InsertValues(ts, hasCols, cols, ParseTuples(ts, cols.p + 2, <<>>))
ParseInsert(ts) ==
  IF ~IsKw(Tok(ts, 2), "INTO") \/ ~IsName(Tok(ts, 3)) THEN NoStatement
  ELSE IF IsSym(Tok(ts, 4), "(") THEN InsertColumns(ts, TRUE, ParseNames(ts, 5, <<>>))
  ELSE InsertColumns(ts, FALSE, Q(TRUE, 3, <<>>))

\* col = value {, col = value}
RECURSIVE ParseSet(_, _, _)
RECURSIVE SetAfter(_, _, _, _)
ParseSet(ts, p, acc) ==
  IF IsName(Tok(ts, p)) /\ IsSym(Tok(ts, p + 1), "=")
  THEN SetAfter(ts, Tok(ts, p).s, ParseArith(ts, p + 2), acc) ELSE NoSeq
SetAfter(ts, column, value, acc) ==
  IF ~value.ok THEN NoSeq
  ELSE IF IsSym(Tok(ts, value.p), ",")
  THEN ParseSet(ts, value.p + 1, Append(acc, [column |-> column, value |-> value.n]))
  ELSE Q(TRUE, value.p, Append(acc, [column |-> column, value |-> value.n]))

\* UPDATE name SET assignments [WHERE expr]
UpdateHead(ts, set) ==
  IF set.ok
  THEN St(TRUE, set.p, Ast("update", Tables(Tok(ts, 2).s), <<>>, FALSE, <<>>, set.xs))
  ELSE NoStatement
ParseUpdate(ts) ==
  IF IsName(Tok(ts, 2)) /\ IsKw(Tok(ts, 3), "SET")
  THEN WithWhere(ts, UpdateHead(ts, ParseSet(ts, 4, <<>>))) ELSE NoStatement

\* DELETE FROM name [WHERE expr]
ParseDelete(ts) ==
  IF IsKw(Tok(ts, 2), "FROM") /\ IsName(Tok(ts, 3))
  THEN WithWhere(ts, St(TRUE, 4, Ast("delete", Tables(Tok(ts, 3).s), <<>>, FALSE, <<>>, <<>>)))
  ELSE NoStatement

\* SHOW TABLES: a statement the parser accepts and the translator does not support
ParseShow(ts) ==
  IF IsKw(Tok(ts, 2), "TABLES")
  THEN St(TRUE, 3, Ast("show", <<>>, <<>>, FALSE, <<>>, <<>>))
  ELSE NoStatement

ParseStatement(ts) ==
  CASE IsKw(Tok(ts, 1), "SELECT") -> ParseSelect(ts)
    [] IsKw(Tok(ts, 1), "INSERT") -> ParseInsert(ts)
    [] IsKw(Tok(ts, 1), "UPDATE") -> ParseUpdate(ts)
    [] IsKw(Tok(ts, 1), "DELETE") -> ParseDelete(ts)
    [] IsKw(Tok(ts, 1), "SHOW") -> ParseShow(ts)
    [] OTHER -> NoStatement

\* the whole text must be one statement, with or without a closing ";"
Parsed(ts, st) ==
  IF (\E i \in 1..Len(ts) : ts[i].k = "bad") \/ ~st.ok
     \/ (IF IsSym(Tok(ts, st.p), ";") THEN st.p + 1 ELSE st.p) # Len(ts) + 1
  THEN [thrown |-> TRUE, message |-> SyntaxErrorMessage, ast |-> NoAst]
  ELSE [thrown |-> FALSE, message |-> "", ast |-> st.ast]

AstifyTokens(ts) == Parsed(ts, ParseStatement(ts))

\* the tree, or the syntax error thrown
astify(sql) == AstifyTokens(Lex(sql, 1))

(***************************************************************************)
(* The input texts: statements of the supported surface and near it,       *)
(* built from bounded sets of clauses and written in several layouts.      *)
(***************************************************************************)
\* the longest AND chain of a WHERE clause, and the longest run of blanks
MaxLeaves == 3
MaxBlanks == 2

LeafTexts == <<"a = 1", "b = 2", "c = 3", "d = 4">>

\* leaf {AND leaf}: n leaves
RECURSIVE AndChain(_)
AndChain(n) == IF n = 1 THEN LeafTexts[1] ELSE AndChain(n - 1) \o " AND " \o LeafTexts[n]

RECURSIVE Blanks(_)
Blanks(n) == IF n = 0 THEN "" ELSE " " \o Blanks(n - 1)

SingleConditions ==
  {"a = 1", "a = 'x  y'", "a = x", "a != 'x'", "a >= 5", "a LIKE 'x%'", "a IN (1, 2)",
   "a IS NULL", "a % 2", "a % 2 = 0", "a == 1", "note = 'selected'"}
OrConditions ==
  {"col1 = 'a' OR col2 = 'b'", "a = 1 OR b = 2 AND c = 3", "a = 1 OR b = 2 OR c = 3"}
AndConditions == {AndChain(n) : n \in 2..MaxLeaves}
AllConditions == SingleConditions \cup OrConditions \cup AndConditions
FewConditions == {"a = 'x  y'", "a == 1", "col1 = 'a' OR col2 = 'b'"}

\* the clauses, written with the blank b between their words
WhereClauses(b, conditions) == {""} \cup {b \o "WHERE" \o b \o w : w \in conditions}
OrderBy(b) == b \o "ORDER" \o b \o "BY" \o b \o "a"
LimitFive(b) == b \o "LIMIT" \o b \o "5"
SelectEnds(b) ==
  {"", OrderBy(b), OrderBy(b) \o b \o "DESC", LimitFive(b), OrderBy(b) \o LimitFive(b),
   b \o "LIMIT"}
OtherEnds(b) == {"", ";", b \o "LIMIT"}

FieldLists == {"*", "a", "a,b", "a , b AS x"}
SetLists == {"a = 1", "a = 'x'", "a = 1.5", "a = 1, b = 2", "selected = 1, b = 2"}
ColumnLists == {"a", "a,b", "a, b"}
ValueLists == {"1", "1, 'x'", "'a, b', 2", "1, ''", "'', 1", "'x)', 1", "NULL, tRue", "1, 2, 3"}

\* the fewer lists of the other layouts
FewFieldLists == {"*", "a,b"}
FewSetLists == {"a = 1", "selected = 1, b = 2"}
FewColumnLists == {"a"}

SelectTexts(b, fields, conditions) ==
  {"SELECT" \o b \o f \o b \o "FROM" \o b \o "t" \o w \o e :
     f \in fields, w \in WhereClauses(b, conditions), e \in SelectEnds(b)}

DeleteTexts(b, conditions) ==
  {"DELETE" \o b \o "FROM" \o b \o "t" \o w \o e :
     w \in WhereClauses(b, conditions), e \in OtherEnds(b)}

UpdateTexts(b, sets, conditions) ==
  {"UPDATE" \o b \o "t" \o b \o "SET" \o b \o s \o w \o e :
     s \in sets, w \in WhereClauses(b, conditions), e \in OtherEnds(b)}

InsertTexts(b, columns) ==
  {"INSERT" \o b \o "INTO" \o b \o "t" \o b \o "(" \o c \o ")" \o b \o "VALUES" \o b \o "(" \o v \o ")" \o e :
     c \in columns, v \in ValueLists, e \in OtherEnds(b)}

\* every list and every condition, with single blanks
Texts ==
  SelectTexts(" ", FieldLists, AllConditions) \cup DeleteTexts(" ", AllConditions)
  \cup UpdateTexts(" ", SetLists, AllConditions) \cup InsertTexts(" ", ColumnLists)

\* fewer lists and conditions, with the blank b between the words
FewTexts(b) ==
  SelectTexts(b, FewFieldLists, FewConditions) \cup DeleteTexts(b, FewConditions)
  \cup UpdateTexts(b, FewSetLists, FewConditions) \cup InsertTexts(b, FewColumnLists)

OtherTexts ==
  {"SHOW TABLES", "SHOW", "", "EXPLAIN SELECT a FROM t", "EXPLAIN SELECT a,b FROM t", "SELECT 1",
   "INSERT INTO t VALUES (1)", "INSERT INTO t (a) VALUES (1), (2)",
   "DELETE FROM t WHERE a = 'SELECT x,y'"}

\* every text with single blanks; fewer texts in the other layouts: lower
\* case, runs of blanks, line breaks, blanks around the text
Inputs ==
  Texts
  \cup OtherTexts
  \cup {toLowerCase(s) : s \in FewTexts(" ")}
  \cup UNION {FewTexts(Blanks(n)) : n \in 2..MaxBlanks}
  \cup FewTexts("\n")
  \cup UNION {{Blanks(n - 1) \o s \o Blanks(n - 1) : s \in FewTexts(" ")} : n \in 2..MaxBlanks}

(***************************************************************************)
(* executeSQL, one call: the state and the steps.                          *)
(***************************************************************************)
VARIABLES
  sqlQuery,      \* the argument of executeSQL
  pc,            \* where the call stands: start, classify, dispatch, catch, done
  processedSQL,  \* const processedSQL = this.preprocessSQL(sqlQuery)
  ast,           \* const ast = this.parser.astify(...)
  error,         \* the message of the error caught by the catch block
  handlers,      \* the handlers run in this call, in order
  calls,         \* the calls made on query builders, in order
  requests,      \* the queries awaited (sent to the backend), each its calls
  result,        \* the value the call resolved to
  rejected,      \* whether an error left executeSQL
  valueStr,      \* the argument of a direct call of parseInsertValues
  values,        \* what that call returned
  token,         \* the argument of a direct call of the two coercion functions
  coerced,       \* what parseInsertValue and parseUpdateValue returned for it
  script,        \* the statements a caller runs through executeSQL, one after the other
  step,          \* which statement of the script is being run (0: no script)
  table,         \* the rows of table t held by the backend
  served,        \* the requests the backend served, each with the rows it gave back
  now,           \* Date.now(), in milliseconds
  wait,          \* the wait option of the decorator
  lastExecutionTimeMap,  \* key -> time of the last admitted call
  cleanups,      \* the pending cleanup timers of Throttle: key and due time
  admitted,      \* the calls Throttle passed to the original method: key and time
  response,      \* what the last call of the decorated method gave
  secretKey,     \* the configured AUTH_SECRET_KEY ("" when missing)
  verdict,       \* the last request DynamicAuthGuard saw and what it decided
  leading,       \* the leading option of Debounce
  trailing,      \* the trailing option of Debounce
  debounceTimerMap,  \* key -> the timer set by the last call of the key
  active,        \* the timers of Debounce that are set and not cleared
  arrivals,      \* the calls of the debounced method: key, arguments and time
  executions,    \* the runs of the original method: key, arguments and time
  promises       \* the promise of each call: pending, resolved or rejected

\* the variables of the direct calls and of the other components: no step of
\* executeSQL changes them
scanVars == <<valueStr, values>>
coerceVars == <<token, coerced>>
storeVars == <<script, step, table, served>>
timeVars == <<now, wait>>
throttleVars == <<lastExecutionTimeMap, cleanups, admitted, response>>
guardVars == <<secretKey, verdict>>
debounceVars == <<leading, trailing, debounceTimerMap, active, arrivals, executions, promises>>
timerVars == <<timeVars, throttleVars, guardVars, debounceVars>>
laterVars == <<storeVars, timerVars>>
execVars == <<sqlQuery, pc, processedSQL, ast, error, handlers, calls, requests, result, rejected>>
otherVars == <<coerceVars, laterVars>>

vars == <<sqlQuery, pc, processedSQL, ast, error, handlers, calls, requests, result, rejected,
          scanVars, otherVars>>

\* executeSQL not called
IdleExec ==
  /\ sqlQuery = ""
  /\ processedSQL = ""
  /\ ast = NoAst
  /\ error = ""
  /\ handlers = <<>>
  /\ calls = <<>>
  /\ requests = <<>>
  /\ result = NoResult
  /\ rejected = FALSE

IdleScan == valueStr = "" /\ values = <<>>
IdleCoerce == token = "" /\ coerced = <<>>
IdleStore == script = <<>> /\ step = 0 /\ table = <<>> /\ served = <<>>
NoResponse == [kind |-> "none", status |-> "", message |-> "", key |-> ""]
IdleTime == now = 0 /\ wait = 0
IdleThrottle ==
  lastExecutionTimeMap = <<>> /\ cleanups = <<>> /\ admitted = <<>> /\ response = NoResponse
NoVerdict == [timestamp |-> "", signature |-> "", kind |-> "none", message |-> ""]
IdleGuard == secretKey = "" /\ verdict = NoVerdict
IdleDebounce ==
  /\ leading = FALSE
  /\ trailing = FALSE
  /\ debounceTimerMap = <<>>
  /\ active = {}
  /\ arrivals = <<>>
  /\ executions = <<>>
  /\ promises = <<>>
IdleTimers == IdleTime /\ IdleThrottle /\ IdleGuard /\ IdleDebounce
IdleLater == IdleStore /\ IdleTimers
IdleOther == IdleCoerce /\ IdleLater

Init ==
  /\ sqlQuery \in Inputs
  /\ pc = "start"
  /\ processedSQL = ""
  /\ ast = NoAst
  /\ error = ""
  /\ handlers = <<>>
  /\ calls = <<>>
  /\ requests = <<>>
  /\ result = NoResult
  /\ rejected = FALSE
  /\ IdleScan
  /\ IdleOther

\* a handler ran inside the try block: its Result is returned, its error is caught
InTry(name, o) ==
  /\ handlers' = Append(handlers, name)
  /\ calls' = calls \o o.calls
  /\ requests' = IF o.sent THEN Append(requests, o.calls) ELSE requests
  /\ IF o.thrown
     THEN pc' = "catch" /\ error' = o.message /\ result' = result
     ELSE pc' = "done" /\ error' = error /\ result' = o.result
  /\ UNCHANGED <<sqlQuery, processedSQL, ast, rejected, scanVars, otherVars>>

\* a handler ran inside the catch block: its Result is returned, its error leaves the call
InCatch(name, o) ==
  /\ handlers' = Append(handlers, name)
  /\ calls' = calls \o o.calls
  /\ requests' = IF o.sent THEN Append(requests, o.calls) ELSE requests
  /\ pc' = "done"
  /\ rejected' = o.thrown
  /\ result' = IF o.thrown THEN result ELSE o.result
  /\ UNCHANGED <<sqlQuery, processedSQL, ast, error, scanVars, otherVars>>

Preprocess ==
  /\ pc = "start"
  /\ processedSQL' = preprocessSQL(sqlQuery)
  /\ pc' = "classify"
  /\ UNCHANGED <<sqlQuery, ast, error, handlers, calls, requests, result, rejected, scanVars, otherVars>>

\* a simple DELETE that refuses a statement the caller has already run
FastDeleteOnce ==
  /\ pc = "classify"
  /\ isSimpleDelete(processedSQL)
  /\ IF step >= 2
     THEN InTry("handleSimpleDelete", Returned(<<>>, handleError("Statement already run", "400")))
     ELSE \E backend \in BackendOutcomes :
            InTry("handleSimpleDelete", handleSimpleDelete(processedSQL, backend))

FastDelete ==
  /\ pc = "classify"
  /\ isSimpleDelete(processedSQL)
  /\ \E backend \in BackendOutcomes :
       InTry("handleSimpleDelete", handleSimpleDelete(processedSQL, backend))

FastUpdate ==
  /\ pc = "classify"
  /\ ~isSimpleDelete(processedSQL)
  /\ isSimpleUpdate(processedSQL)
  /\ \E backend \in BackendOutcomes :
       InTry("handleSimpleUpdate", handleSimpleUpdate(processedSQL, backend))

FastInsert ==
  /\ pc = "classify"
  /\ ~isSimpleDelete(processedSQL)
  /\ ~isSimpleUpdate(processedSQL)
  /\ isSimpleInsert(processedSQL)
  /\ \E backend \in BackendOutcomes :
       InTry("handleSimpleInsert", handleSimpleInsert(processedSQL, backend))

\* the SELECT test made first, before the other three classifiers
FastSelectFirst ==
  /\ pc = "classify"
  /\ isSimpleSelect(processedSQL)
  /\ \E backend \in BackendOutcomes :
       InTry("handleSimpleSelect", handleSimpleSelect(processedSQL, backend))

FastSelect ==
  /\ pc = "classify"
  /\ ~isSimpleDelete(processedSQL)
  /\ ~isSimpleUpdate(processedSQL)
  /\ ~isSimpleInsert(processedSQL)
  /\ isSimpleSelect(processedSQL)
  /\ \E backend \in BackendOutcomes :
       InTry("handleSimpleSelect", handleSimpleSelect(processedSQL, backend))

\* the test before the parser made without the SELECT classifier
NoClassifierButSelect(sql) ==
  ~isSimpleDelete(sql) /\ ~isSimpleUpdate(sql) /\ ~isSimpleInsert(sql)

NoClassifier(sql) ==
  ~isSimpleDelete(sql) /\ ~isSimpleUpdate(sql) /\ ~isSimpleInsert(sql) /\ ~isSimpleSelect(sql)

\* const ast = this.parser.astify(processedSQL, { database: 'mysql' })
Parse ==
  /\ pc = "classify"
  /\ NoClassifier(processedSQL)
  /\ \E parsed \in {astify(processedSQL)} :
       IF parsed.thrown
       THEN pc' = "catch" /\ error' = parsed.message /\ ast' = ast
       ELSE pc' = "dispatch" /\ error' = error /\ ast' = parsed.ast
  /\ UNCHANGED <<sqlQuery, processedSQL, handlers, calls, requests, result, rejected, scanVars, otherVars>>

DispatchSelect ==
  /\ pc = "dispatch"
  /\ ast.type = "select"
  /\ \E backend \in BackendOutcomes : InTry("handleSelect", handleSelect(ast, backend))

DispatchInsert ==
  /\ pc = "dispatch"
  /\ ast.type = "insert"
  /\ \E backend \in BackendOutcomes : InTry("handleInsert", handleInsert(ast, backend))

DispatchUpdate ==
  /\ pc = "dispatch"
  /\ ast.type = "update"
  /\ \E backend \in BackendOutcomes : InTry("handleUpdate", handleUpdate(ast, backend))

DispatchDelete ==
  /\ pc = "dispatch"
  /\ ast.type = "delete"
  /\ \E backend \in BackendOutcomes : InTry("handleDelete", handleDelete(ast, backend))

\* default: throw new Error(`Unsupported query type: ${type}`)
DispatchUnsupported ==
  /\ pc = "dispatch"
  /\ ast.type \notin {"select", "insert", "update", "delete"}
  /\ pc' = "catch"
  /\ error' = "Unsupported query type: " \o ast.type
  /\ UNCHANGED <<sqlQuery, processedSQL, ast, handlers, calls, requests, result, rejected, scanVars, otherVars>>

\* error.message.includes('Expected') && sqlQuery.toLowerCase().includes(word)
Sniff(word) == includes(error, "Expected") /\ includes(toLowerCase(sqlQuery), word)

FallbackSelect ==
  /\ pc = "catch"
  /\ Sniff("select")
  /\ \E backend \in BackendOutcomes :
       InCatch("handleSimpleSelect", handleSimpleSelect(sqlQuery, backend))

FallbackInsert ==
  /\ pc = "catch"
  /\ ~Sniff("select")
  /\ Sniff("insert")
  /\ \E backend \in BackendOutcomes :
       InCatch("handleSimpleInsert", handleSimpleInsert(sqlQuery, backend))

FallbackUpdate ==
  /\ pc = "catch"
  /\ ~Sniff("select")
  /\ ~Sniff("insert")
  /\ Sniff("update")
  /\ \E backend \in BackendOutcomes :
       InCatch("handleSimpleUpdate", handleSimpleUpdate(sqlQuery, backend))

FallbackDelete ==
  /\ pc = "catch"
  /\ ~Sniff("select")
  /\ ~Sniff("insert")
  /\ ~Sniff("update")
  /\ Sniff("delete")
  /\ \E backend \in BackendOutcomes :
       InCatch("handleSimpleDelete", handleSimpleDelete(sqlQuery, backend))

\* return this.handleError(error.message)
GenericError ==
  /\ pc = "catch"
  /\ ~Sniff("select")
  /\ ~Sniff("insert")
  /\ ~Sniff("update")
  /\ ~Sniff("delete")
  /\ result' = handleError(error, "undefined")
  /\ pc' = "done"
  /\ UNCHANGED <<sqlQuery, processedSQL, ast, error, handlers, calls, requests, rejected, scanVars, otherVars>>

Next ==
  \/ Preprocess
  \/ FastDelete
  \/ FastUpdate
  \/ FastInsert
  \/ FastSelect
  \/ Parse
  \/ DispatchSelect
  \/ DispatchInsert
  \/ DispatchUpdate
  \/ DispatchDelete
  \/ DispatchUnsupported
  \/ FallbackSelect
  \/ FallbackInsert
  \/ FallbackUpdate
  \/ FallbackDelete
  \/ GenericError

Spec == Init /\ [][Next]_vars

(***************************************************************************)
(* The properties of executeSQL.                                           *)
(***************************************************************************)
Last(xs) == xs[Len(xs)]
SimpleHandlers ==
  {"handleSimpleSelect", "handleSimpleInsert", "handleSimpleUpdate", "handleSimpleDelete"}

\* the call has come back with a Result: {data, error}
Resolved == pc = "done" /\ ~rejected /\ result.data \in {"rows", "null"}

\* C1: for every input string executeSQL resolves to a Result {data, error}
\* and never throws or rejects, whatever fails on the way: a simple handler,
\* the parser, an AST handler or the fallback handler.
C1_NeverThrows ==
  /\ ~rejected
  /\ pc = "done" => Resolved

\* C1, its case: the catch block was entered, the fallback handler failed in
\* turn, and the call still resolved to an error Result.
C1_Witness ==
  /\ Resolved
  /\ error # ""
  /\ handlers # <<>>
  /\ Last(handlers) \in SimpleHandlers
  /\ result.error
  /\ result.statusCode = "400"

\* the handler of the first classifier, in the order DELETE, UPDATE, INSERT,
\* SELECT, that matches the text; "" when none does
FirstMatch(sql) ==
  IF isSimpleDelete(sql) THEN "handleSimpleDelete"
  ELSE IF isSimpleUpdate(sql) THEN "handleSimpleUpdate"
  ELSE IF isSimpleInsert(sql) THEN "handleSimpleInsert"
  ELSE IF isSimpleSelect(sql) THEN "handleSimpleSelect"
  ELSE ""

\* C2: the classifiers are tested in the order DELETE, UPDATE, INSERT, SELECT
\* and only the handler of the first one that matches the normalized text
\* runs in the call, even when a later classifier matches the text too.
C2_FirstClassifierOnly ==
  /\ pc = "classify" => handlers = <<>>
  /\ pc \in {"dispatch", "catch"} => FirstMatch(processedSQL) = ""
  /\ pc = "done" => FirstMatch(processedSQL) = "" \/ handlers = <<FirstMatch(processedSQL)>>

\* C2, its case: a text matched by isSimpleDelete and by isSimpleSelect was
\* handled by handleSimpleDelete alone.
C2_Witness ==
  /\ pc = "done"
  /\ isSimpleDelete(processedSQL)
  /\ isSimpleSelect(processedSQL)
  /\ handlers = <<"handleSimpleDelete">>

\* the first word of the text, in lower case: the kind of the statement
StatementWord(sql) == toLowerCase(split(trim(collapseSpaces(sql)), " ")[1])
SimpleHandlerOf(word) ==
  CASE word = "select" -> "handleSimpleSelect"
    [] word = "insert" -> "handleSimpleInsert"
    [] word = "update" -> "handleSimpleUpdate"
    [] word = "delete" -> "handleSimpleDelete"
    [] OTHER -> ""

\* C3: when the parser or an AST handler throws a syntax-expectation error,
\* the statement is retried with the simple handler of its own kind (UPDATE
\* with handleSimpleUpdate, and so on), also when its text holds more than
\* one of the words select, insert, update, delete.
C3_RetryMatchesStatement ==
  (pc = "done" /\ includes(error, "Expected")
     /\ StatementWord(sqlQuery) \in {"select", "insert", "update", "delete"}) =>
    /\ handlers # <<>>
    /\ Last(handlers) = SimpleHandlerOf(StatementWord(sqlQuery))

\* C4: a statement on which the parser throws a syntax-expectation error and
\* whose text contains "select" gives the Result of the fast path: the calls
\* and the value of handleSimpleSelect on the whitespace-normalized text,
\* whatever blanks lead, trail or repeat in the text.
C4_FallbackSelectAsFastPath ==
  (pc = "done" /\ error = SyntaxErrorMessage /\ includes(toLowerCase(sqlQuery), "select")) =>
    \E backend \in BackendOutcomes :
      /\ handleSimpleSelect(processedSQL, backend).calls = calls
      /\ handleSimpleSelect(processedSQL, backend).result = result

\* how many times the character ch stands outside quoted segments of s
RECURSIVE UnquotedFrom(_, _, _, _)
UnquotedFrom(s, ch, i, quote) ==
  IF i > Len(s) THEN 0
  ELSE IF quote = "" /\ Ch(s, i) \in {Quote1, Quote2} THEN UnquotedFrom(s, ch, i + 1, Ch(s, i))
  ELSE IF quote # "" THEN UnquotedFrom(s, ch, i + 1, IF Ch(s, i) = quote THEN "" ELSE quote)
  ELSE (IF Ch(s, i) = ch THEN 1 ELSE 0) + UnquotedFrom(s, ch, i + 1, quote)
UnquotedCount(s, ch) == UnquotedFrom(s, ch, 1, "")

\* INSERT INTO t (columns) VALUES (values): one column list, one tuple
IsPlainInsert(sql) == StatementWord(sql) = "insert" /\ UnquotedCount(sql, "(") = 2
ColumnCount(sql) == Len(split(split(split(sql, "(")[2], ")")[1], ","))
ValueCount(sql) == UnquotedCount(split(sql, "(")[3], ",") + 1

InsertSent == \E i \in 1..Len(requests) : \E j \in 1..Len(requests[i]) : requests[i][j].m = "insert"

\* C5: an INSERT whose column count differs from its value count gives an
\* error Result with statusCode 400 and data null, and no insert is sent to
\* the backend, on the fast path, the AST path and the fallback alike.
C5_ArityMismatchRejected ==
  (pc = "done" /\ IsPlainInsert(sqlQuery) /\ ColumnCount(sqlQuery) # ValueCount(sqlQuery)) =>
    /\ result.error
    /\ result.data = "null"
    /\ result.statusCode = "400"
    /\ ~InsertSent

\* a simple handler by its name, with and without its catch block
SimpleHandler(name, sql, backend) ==
  CASE name = "handleSimpleSelect" -> handleSimpleSelect(sql, backend)
    [] name = "handleSimpleInsert" -> handleSimpleInsert(sql, backend)
    [] name = "handleSimpleUpdate" -> handleSimpleUpdate(sql, backend)
    [] name = "handleSimpleDelete" -> handleSimpleDelete(sql, backend)
SimpleHandlerTry(name, sql, backend) ==
  CASE name = "handleSimpleSelect" -> handleSimpleSelectTry(sql, backend)
    [] name = "handleSimpleInsert" -> handleSimpleInsertTry(sql, backend)
    [] name = "handleSimpleUpdate" -> handleSimpleUpdateTry(sql, backend)
    [] name = "handleSimpleDelete" -> handleSimpleDeleteTry(sql, backend)

\* the text the handler that ran last was given: the normalized text on the
\* fast path, the text as passed in the catch block
HandlerText == IF error = "" THEN processedSQL ELSE sqlQuery

\* what the try block threw came back as {data: null, error: {message, 400}}
FailureReturned(tried, outcome) ==
  /\ ~outcome.thrown
  /\ tried.thrown =>
       /\ outcome.result.data = "null"
       /\ outcome.result.error
       /\ outcome.result.message # ""
       /\ outcome.result.statusCode = "400"

\* C6: every failure inside a simple handler (capture regex not matching,
\* arity mismatch, an exception from the builder or backend call) is returned
\* as {data: null, error: {message, statusCode: 400}} and never thrown.
C6_SimpleFailuresReturned ==
  (pc = "done" /\ handlers # <<>> /\ Last(handlers) \in SimpleHandlers) =>
    LET outcome == [backend \in BackendOutcomes |->
                      SimpleHandler(Last(handlers), HandlerText, backend)]
        tried == [backend \in BackendOutcomes |->
                    SimpleHandlerTry(Last(handlers), HandlerText, backend)]
    IN /\ ~rejected
       /\ \A backend \in BackendOutcomes : FailureReturned(tried[backend], outcome[backend])
       /\ \E backend \in BackendOutcomes : outcome[backend].result = result

\* C6, its case: handleSimpleInsert found an arity mismatch on the fast path
\* and returned it as an error Result with statusCode 400.
C6_Witness ==
  /\ pc = "done"
  /\ handlers = <<"handleSimpleInsert">>
  /\ error = ""
  /\ handleSimpleInsertTry(processedSQL, "rows").thrown
  /\ result = handleError("Column count does not match value count", "400")

\* the filter calls among the calls made, in order
IsFilter(c) == c.m \in FilterMethods
FilterCalls == SelectSeq(calls, IsFilter)

\* C7: for the WHERE clause col1 = 'a' OR col2 = 'b' exactly one filter call
\* is made, or('col1.eq.a,col2.eq.b'), and no other, for SELECT *, SELECT
\* with a comma-separated field list, UPDATE and DELETE.
C7_OrIsOneDisjunctiveFilter ==
  (pc = "done" /\ endsWith(processedSQL, " WHERE col1 = 'a' OR col2 = 'b'")) =>
    FilterCalls = <<Or("col1.eq.a,col2.eq.b")>>

LeafColumns == <<"a", "b", "c", "d">>
LeafValues == <<"1", "2", "3", "4">>
LeafFilters(n) == [i \in 1..n |-> Filter("eq", LeafColumns[i], NumVal(LeafValues[i]))]

\* C8: a WHERE clause that is an AND of n leaf comparisons gives n filter
\* calls, one per leaf, left to right, for SELECT, UPDATE and DELETE.
C8_AndIsOneFilterPerLeaf ==
  \A n \in 2..MaxLeaves :
    (pc = "done" /\ endsWith(processedSQL, " WHERE " \o AndChain(n))) =>
      FilterCalls = LeafFilters(n)

\* the SELECT statements ending with LIMIT 5: every field list, with and
\* without WHERE and ORDER BY
LimitedSelects ==
  {"SELECT " \o f \o " FROM t" \o w \o o \o LimitFive(" ") :
     f \in FieldLists, w \in {"", " WHERE a = 1"}, o \in {"", OrderBy(" ")}}

\* C9: a SELECT that ends with LIMIT n issues the call limit(n), whether the
\* field list is *, one column or several columns, with or without WHERE and
\* ORDER BY.
C9_LimitIsApplied ==
  (pc = "done" /\ processedSQL \in LimitedSelects) =>
    \E i \in 1..Len(calls) : calls[i] = Limit(NumVal("5"))

(***************************************************************************)
(* parseInsertValues, called on its own with bounded value lists.          *)
(***************************************************************************)
\* the longest value list
MaxValues == 3

ElementTexts == {"1", "x", "NULL", "'a, b'", Quote1 \o Quote1, Quote2 \o Quote2}

\* the value lists of n elements
RECURSIVE ValueTexts(_)
ValueTexts(n) ==
  IF n = 1 THEN ElementTexts
  ELSE {v \o ", " \o e : v \in ValueTexts(n - 1), e \in ElementTexts}

ScanInit ==
  /\ valueStr \in UNION {ValueTexts(n) : n \in 1..MaxValues}
  /\ values = <<>>
  /\ pc = "scan"
  /\ IdleExec
  /\ IdleOther

\* const values = this.parseInsertValues(valueStr)
Scan ==
  /\ pc = "scan"
  /\ values' = parseInsertValues(valueStr)
  /\ pc' = "scanned"
  /\ UNCHANGED <<sqlQuery, processedSQL, ast, error, handlers, calls, requests, result,
                 rejected, valueStr, otherVars>>

ScanNext == Scan

ScanSpec == ScanInit /\ [][ScanNext]_vars

\* C10: parseInsertValues returns one value per element of the list, the
\* number of commas outside quoted segments plus one, also when an element
\* is an empty quoted string.
C10_OneValuePerElement ==
  pc = "scanned" => Len(values) = UnquotedCount(valueStr, ",") + 1

(***************************************************************************)
(* parseInsertValue and parseUpdateValue, called on their own with bounded *)
(* tokens.                                                                 *)
(***************************************************************************)
\* the longest run of digits in a token
MaxDigits == 2

RECURSIVE DigitRuns(_)
DigitRuns(n) ==
  IF n = 1 THEN {"0", "1", "9"} ELSE {r \o d : r \in DigitRuns(n - 1), d \in {"0", "1", "9"}}

IntegerTexts == UNION {DigitRuns(n) : n \in 1..MaxDigits}
Cores ==
  IntegerTexts \cup {"-" \o r : r \in IntegerTexts}
  \cup {".5", "1.5", "-.5", "-1.50", "1.", "1.2.3"}
  \cup {"true", "TRUE", "tRue", "false", "False", "null", "NULL", "Null"}
  \cup {"", "abc", "12a", "it's", "-", ".", " 1"}

\* a core with or without a quote character on each side
Tokens == {l \o c \o r : l \in {"", Quote1, Quote2}, c \in Cores, r \in {"", Quote1, Quote2}}

CoerceInit ==
  /\ token \in Tokens
  /\ coerced = <<>>
  /\ pc = "coerce"
  /\ IdleExec
  /\ IdleScan
  /\ IdleLater

\* this.parseInsertValue(value) and this.parseUpdateValue(value) on the same token
Coerce ==
  /\ pc = "coerce"
  /\ coerced' = <<parseInsertValue(token), parseUpdateValue(token)>>
  /\ pc' = "coerced"
  /\ UNCHANGED <<sqlQuery, processedSQL, ast, error, handlers, calls, requests, result,
                 rejected, scanVars, token, laterVars>>

CoerceNext == Coerce

CoerceSpec == CoerceInit /\ [][CoerceNext]_vars

\* the rules of token coercion, in their order
IsDigits(s) == Len(s) > 0 /\ CharsOf(s) \subseteq DigitSet
Unsigned(s) == IF startsWith(s, "-") THEN SubSeq(s, 2, Len(s)) ELSE s
IsIntegerToken(s) == IsDigits(Unsigned(s))
IsDecimalToken(s) ==
  \E i \in 1..Len(Unsigned(s)) :
    /\ Ch(Unsigned(s), i) = "."
    /\ i > 1 => IsDigits(SubSeq(Unsigned(s), 1, i - 1))
    /\ IsDigits(SubSeq(Unsigned(s), i + 1, Len(Unsigned(s))))
IsQuoted(s) == Len(s) >= 2 /\ Ch(s, 1) \in {Quote1, Quote2} /\ Ch(s, Len(s)) = Ch(s, 1)

Coerced(s) ==
  IF IsQuoted(s) THEN StrVal(SubSeq(s, 2, Len(s) - 1))
  ELSE IF IsIntegerToken(s) THEN NumVal(parseIntText(s))
  ELSE IF IsDecimalToken(s) THEN NumVal(s)
  ELSE IF toLowerCase(s) \in {"true", "false"} THEN BoolVal(toLowerCase(s))
  ELSE IF toLowerCase(s) = "null" THEN NullVal
  ELSE StrVal(s)

\* C11: both coercion functions return, for every token, the value of the
\* rules in their order: the string between matching quotes, else the
\* integer, else the float, else the boolean, else null, else the raw token.
C11_CoercionRules ==
  pc = "coerced" => coerced = <<Coerced(token), Coerced(token)>>

(***************************************************************************)
(* ORDER BY without a direction                                            *)
(***************************************************************************)
IsOrder(c) == c.m = "order"
OrderCalls == SelectSeq(calls, IsOrder)

\* the statement is a SELECT that the fast path or the parser accepted and
\* that ends with its ORDER BY clause
OrderedSelect(direction) ==
  /\ pc = "done"
  /\ error = ""
  /\ requests # <<>>
  /\ StatementWord(processedSQL) = "select"
  /\ endsWith(toUpperCase(processedSQL), " ORDER BY A" \o direction)

AstHandlers == {"handleSelect", "handleInsert", "handleUpdate", "handleDelete"}
OnAstPath == pc = "done" /\ handlers # <<>> /\ handlers[1] \in AstHandlers

SupportedOperators == {"=", "!=", "<>", ">", ">=", "<", "<=", "LIKE", "ILIKE", "IN", "IS"}

\* the tree of the WHERE clause holds an operator that is neither AND, OR nor
\* one of the supported operators
RECURSIVE HasUnsupported(_)
HasUnsupported(n) ==
  /\ n.type = "binary_expr"
  /\ \/ n.operator \notin (SupportedOperators \cup {"AND", "OR"})
     \/ HasUnsupported(n.left)
     \/ HasUnsupported(n.right)

\* C13: when the WHERE clause of a statement handled on the AST path holds a
\* comparison with an unsupported operator (a modulus comparison, say),
\* executeSQL returns an error Result whose message reports the unsupported
\* operator, sends no request and does not throw.
C13_UnsupportedOperatorReported ==
  (OnAstPath /\ HasUnsupported(ast.where)) =>
    /\ ~rejected
    /\ result.error
    /\ includes(result.message, "Unsupported operator")
    /\ requests = <<>>

(***************************************************************************)
(* UPDATE with several assignments                                         *)
(***************************************************************************)
\* the statement reads UPDATE t SET a = 1, b = 2 ...
TwoAssignments == startsWith(toUpperCase(processedSQL), "UPDATE T SET A = 1, B = 2")
BothAssigned == Update(SetKey(SetKey(<<>>, "a", NumVal("1")), "b", NumVal("2")))

IsUpdateCall(c) == c.m = "update"
UpdatesSent ==
  UNION {{requests[i][j] : j \in {k \in 1..Len(requests[i]) : IsUpdateCall(requests[i][k])}} :
           i \in 1..Len(requests)}

\* C14: for an UPDATE with two assignments isSimpleUpdate is false and every
\* update record sent to the backend holds both columns with their coerced
\* values, together with a filter when the statement has a WHERE clause; no
\* request carries a record with only one of the assignments.
C14_AllAssignmentsSent ==
  (pc # "start" /\ TwoAssignments) =>
    /\ ~isSimpleUpdate(processedSQL)
    /\ UpdatesSent \subseteq {BothAssigned}
    /\ \A i \in 1..Len(requests) :
         includes(toUpperCase(processedSQL), " WHERE ") =>
           \E j \in 1..Len(requests[i]) : IsFilter(requests[i][j])

(***************************************************************************)
(* UPDATE and DELETE with a WHERE clause                                   *)
(***************************************************************************)
ChangesWithWhere ==
  /\ StatementWord(processedSQL) \in {"update", "delete"}
  /\ includes(toUpperCase(processedSQL), " WHERE ")

\* C20: an UPDATE or DELETE that has a WHERE clause never reaches the backend
\* unfiltered: on the fast path, the AST path and the fallback path every
\* request issued carries at least one filter call, and when no request is
\* issued an error Result is returned.
C20_NeverUnfiltered ==
  (pc = "done" /\ ChangesWithWhere) =>
    /\ \A i \in 1..Len(requests) : \E j \in 1..Len(requests[i]) : IsFilter(requests[i][j])
    /\ requests = <<>> => (~rejected /\ result.error)

(***************************************************************************)
(* A caller running a script of statements, one call of executeSQL after   *)
(* the other, against a backend that stores the rows of table t and        *)
(* filters them by typed equality.  The scripts hold INSERT, SELECT and    *)
(* DELETE statements.                                                      *)
(***************************************************************************)
NoValue == [t |-> "undefined", v |-> "", items |-> <<>>]

RECURSIVE GetKey(_, _)
GetKey(rec, col) ==
  IF Len(rec) = 0 THEN NoValue
  ELSE IF rec[1].col = col THEN rec[1].val
  ELSE GetKey(Tail(rec), col)

\* whether the row passes a call of the request: eq and neq compare the type
\* and the value; the calls that are not filters let every row pass
Passes(row, c) ==
  CASE c.m = "eq" -> GetKey(row, c.col) = c.val
    [] c.m = "neq" -> GetKey(row, c.col) # c.val
    [] OTHER -> TRUE
Selected(row, request) == \A j \in 1..Len(request) : Passes(row, request[j])
Matching(rows, request) == SelectSeq(rows, LAMBDA row : Selected(row, request))
Kept(rows, request) == SelectSeq(rows, LAMBDA row : ~Selected(row, request))

Has(request, m) == \E j \in 1..Len(request) : request[j].m = m
CallOf(request, m) == request[CHOOSE j \in 1..Len(request) : request[j].m = m]

\* the columns of the row named by select(fields)
Project(row, fields) ==
  IF fields = "*" THEN row
  ELSE [i \in 1..Len(split(fields, ",")) |->
          [col |-> split(fields, ",")[i], val |-> GetKey(row, split(fields, ",")[i])]]
ProjectAll(rows, fields) == [i \in 1..Len(rows) |-> Project(rows[i], fields)]

\* the rows of the table once the request is served
After(rows, request) ==
  IF Has(request, "insert") THEN Append(rows, CallOf(request, "insert").rec)
  ELSE IF Has(request, "delete") THEN Kept(rows, request)
  ELSE rows

\* the rows the request is about: the row inserted, the rows deleted, the
\* rows selected
Given(rows, request) ==
  IF Has(request, "insert") THEN <<CallOf(request, "insert").rec>>
  ELSE IF Has(request, "delete") THEN Matching(rows, request)
  ELSE ProjectAll(Matching(rows, request), CallOf(request, "select").col)

Literals == {"1", "7", "12", "'x'", "'y'", "'7'", "'true'", Quote2 \o "x" \o Quote2}
InsertText(v1, v2) == "INSERT INTO t (a,b) VALUES (" \o v1 \o "," \o v2 \o ")"
SelectText(v1) == "SELECT a,b FROM t WHERE a = " \o v1
RoundTrips == {<<InsertText(v1, v2), SelectText(v1)>> : v1 \in Literals, v2 \in Literals}

DeleteStatements ==
  {"DELETE FROM t WHERE a = 1", "DELETE FROM t WHERE a = 'x'", "DELETE FROM t WHERE a != 1",
   "delete from t where b = 'x'", "DELETE FROM t WHERE a IN (1, 2)", "DELETE FROM t",
   "DELETE FROM t;"}
Repeats == {<<d, d>> : d \in DeleteStatements}

Row(a, b) == <<[col |-> "a", val |-> a], [col |-> "b", val |-> b]>>
StoredTables ==
  {<<>>,
   <<Row(NumVal("1"), StrVal("x"))>>,
   <<Row(NumVal("1"), StrVal("x")), Row(StrVal("x"), NumVal("2"))>>}

SessionInit ==
  /\ script \in RoundTrips \cup Repeats
  /\ step = 1
  /\ sqlQuery = script[1]
  /\ table \in StoredTables
  /\ served = <<>>
  /\ pc = "start"
  /\ processedSQL = ""
  /\ ast = NoAst
  /\ error = ""
  /\ handlers = <<>>
  /\ calls = <<>>
  /\ requests = <<>>
  /\ result = NoResult
  /\ rejected = FALSE
  /\ IdleScan
  /\ IdleCoerce
  /\ IdleTimers

\* the backend serves the request the handler awaited
Serve ==
  /\ pc = "done"
  /\ Len(served) < step
  /\ requests # <<>>
  /\ ~rejected
  /\ ~result.error
  /\ table' = After(table, requests[1])
  /\ served' = Append(served, [request |-> requests[1], rows |-> Given(table, requests[1])])
  /\ UNCHANGED <<sqlQuery, pc, processedSQL, ast, error, handlers, calls, requests, result,
                 rejected, script, step, scanVars, coerceVars, timerVars>>

\* the caller runs the next statement of the script
CallNext ==
  /\ pc = "done"
  /\ Len(served) = step
  /\ step < Len(script)
  /\ step' = step + 1
  /\ sqlQuery' = script[step + 1]
  /\ pc' = "start"
  /\ processedSQL' = ""
  /\ ast' = NoAst
  /\ error' = ""
  /\ handlers' = <<>>
  /\ calls' = <<>>
  /\ requests' = <<>>
  /\ result' = NoResult
  /\ rejected' = FALSE
  /\ UNCHANGED <<script, table, served, scanVars, coerceVars, timerVars>>

SessionNext ==
  \/ Preprocess
  \/ FastDelete
  \/ FastInsert
  \/ FastSelect
  \/ Parse
  \/ DispatchDelete
  \/ GenericError
  \/ Serve
  \/ CallNext

SessionSpec == SessionInit /\ [][SessionNext]_vars

\* the value a literal stands for as written: a quoted literal is the string
\* between its quotes, a bare integer is a number
Written(l) == IF Ch(l, 1) \in {Quote1, Quote2} THEN StrVal(slice1(l)) ELSE NumVal(l)

\* C15: after INSERT INTO t (a,b) VALUES (v1,v2) has succeeded, SELECT a,b
\* FROM t WHERE a = v1 returns a row whose a and b are the two literals as
\* written in the INSERT.
C15_RoundTrip ==
  \A v1 \in Literals, v2 \in Literals :
    (script = <<InsertText(v1, v2), SelectText(v1)>> /\ Len(served) = 2) =>
      \E i \in 1..Len(served[2].rows) : served[2].rows[i] = Row(Written(v1), Written(v2))

MaxWait == 2
MaxTicks == 6
MaxAdmitted == 3

\* Date.now() at the start is far beyond any wait, so that now - 0 >= wait
StartTime == MaxWait
EndTime == StartTime + MaxTicks

\* the decorated method and the options errorStatus and errorMessage
methodId == "AppController-getHello"
errorStatus == "TOO_MANY_REQUESTS"
errorMessage == "too many requests"

\* args[0]: request.ip and the x-forwarded-for header ("" when missing)
Requests ==
  {[ip |-> i, forwarded |-> f] :
     i \in {"", "10.0.0.1", "10.0.0.2"}, f \in {"", "10.0.0.2, 10.0.0.9"}}

getClientIP(request) ==
  IF request.forwarded # "" THEN trim(split(request.forwarded, ",")[1]) ELSE request.ip

\* Map.prototype.get(key) || 0, set and delete
GetTime(map, key) == IF key \in DOMAIN map THEN map[key] ELSE 0
SetTime(map, key, time) ==
  [k \in DOMAIN map \cup {key} |-> IF k = key THEN time ELSE map[k]]
DeleteKey(map, key) == [k \in DOMAIN map \ {key} |-> map[k]]

RemoveAt(xs, i) == SubSeq(xs, 1, i - 1) \o SubSeq(xs, i + 1, Len(xs))

Executed(key) == [kind |-> "executed", status |-> "", message |-> "", key |-> key]
HttpException(status, message, key) ==
  [kind |-> "HttpException", status |-> status, message |-> message, key |-> key]
PlainError == [kind |-> "Error", status |-> "", message |-> "no request object", key |-> ""]

ThrottleInit ==
  /\ wait \in 1..MaxWait
  /\ now = StartTime
  /\ IdleThrottle
  /\ IdleGuard
  /\ IdleDebounce
  /\ pc = "throttle"
  /\ IdleExec
  /\ IdleScan
  /\ IdleCoerce
  /\ IdleStore

\* descriptor.value of Throttle, called with a request
ThrottleCall ==
  /\ pc = "throttle"
  /\ Len(admitted) < MaxAdmitted
  /\ \E request \in Requests :
       IF request.ip = ""
       THEN /\ response' = PlainError
            /\ UNCHANGED <<lastExecutionTimeMap, cleanups, admitted>>
       ELSE LET clientIP == getClientIP(request)
                ipMethodKey == clientIP \o "-" \o methodId
                lastTime == GetTime(lastExecutionTimeMap, ipMethodKey)
            IN IF now - lastTime < wait
               THEN /\ response' = HttpException(errorStatus, errorMessage, ipMethodKey)
                    /\ UNCHANGED <<lastExecutionTimeMap, cleanups, admitted>>
               ELSE /\ lastExecutionTimeMap' = SetTime(lastExecutionTimeMap, ipMethodKey, now)
                    /\ cleanups' = Append(cleanups, [key |-> ipMethodKey, due |-> now + wait * 2])
                    /\ admitted' = Append(admitted, [key |-> ipMethodKey, at |-> now])
                    /\ response' = Executed(ipMethodKey)
  /\ UNCHANGED <<execVars, scanVars, coerceVars, storeVars, timeVars, guardVars, debounceVars>>

\* setTimeout(() => { lastExecutionTimeMap.delete(ipMethodKey) }, wait * 2)
Cleanup ==
  /\ pc = "throttle"
  /\ \E i \in 1..Len(cleanups) :
       /\ cleanups[i].due <= now
       /\ lastExecutionTimeMap' = DeleteKey(lastExecutionTimeMap, cleanups[i].key)
       /\ cleanups' = RemoveAt(cleanups, i)
  /\ UNCHANGED <<execVars, scanVars, coerceVars, storeVars, timeVars, guardVars, admitted, response, debounceVars>>

\* a millisecond passes
ThrottleTick ==
  /\ pc = "throttle"
  /\ now < EndTime
  /\ now' = now + 1
  /\ UNCHANGED <<execVars, scanVars, coerceVars, storeVars, wait, throttleVars, guardVars, debounceVars>>

ThrottleNext == ThrottleCall \/ Cleanup \/ ThrottleTick

ThrottleSpec == ThrottleInit /\ [][ThrottleNext]_vars

\* C17: for one (client IP, method) key any two calls admitted to the
\* original method are at least wait milliseconds apart, whatever the
\* interleaving of the calls with the cleanup timers; a call with a request
\* that is not admitted is rejected with the configured HttpException.
C17_AdmittedCallsApart ==
  /\ \A i \in 1..Len(admitted) : \A j \in 1..Len(admitted) :
       (i < j /\ admitted[i].key = admitted[j].key) => admitted[j].at - admitted[i].at >= wait
  /\ response.kind = "HttpException" =>
       (response.status = errorStatus /\ response.message = errorMessage)
  /\ response.kind = "Error" => response.key = ""

(***************************************************************************)
(* DynamicAuthGuard and AuthUtil.verifyDynamicAuth: requests with the      *)
(* headers x-timestamp and x-signature, and the server clock.              *)
(***************************************************************************)
TIME_TOLERANCE == 30
MaxGuardTicks == 70

\* numbers as JavaScript has them here: a natural number or NaN
Num(n) == [nan |-> FALSE, n |-> n]
NaN == [nan |-> TRUE, n |-> 0]

DigitValue(c) == CHOOSE d \in 0..9 : Ch(DigitStr, d + 1) = c

RECURSIVE NatOf(_)
NatOf(s) ==
  IF Len(s) = 0 THEN 0
  ELSE NatOf(SubSeq(s, 1, Len(s) - 1)) * 10 + DigitValue(Ch(s, Len(s)))

RECURSIVE LeadingDigits(_)
LeadingDigits(s) ==
  IF Len(s) > 0 /\ Ch(s, 1) \in DigitSet
  THEN Ch(s, 1) \o LeadingDigits(SubSeq(s, 2, Len(s)))
  ELSE ""

\* parseInt(text) of a text without a sign: the leading digits, or NaN
parseInt(text) ==
  IF LeadingDigits(trimStart(text)) = "" THEN NaN
  ELSE Num(NatOf(LeadingDigits(trimStart(text))))

\* Number.prototype.toString
RECURSIVE NatText(_)
NatText(n) == IF n < 10 THEN Ch(DigitStr, n + 1) ELSE NatText(n \div 10) \o Ch(DigitStr, (n % 10) + 1)
NumberText(x) == IF x.nan THEN "NaN" ELSE NatText(x.n)

\* the HMAC-SHA256 digest of the text under the key, in hex: digests of
\* different texts or keys differ, and all have the same length
Pad(text) == text \o SubSeq("      ", 1, 6 - Len(text))
Hmac(text, key) == "hmac<" \o Pad(key) \o "," \o Pad(text) \o ">"

generateSignature(timestamp, key) == Hmac(NumberText(timestamp), key)

Abs(x) == IF x < 0 THEN 0 - x ELSE x

\* Math.abs(currentTime - timestamp) > TIME_TOLERANCE; false when timestamp is NaN
OutsideTolerance(currentTime, timestamp) ==
  ~timestamp.nan /\ Abs(currentTime - timestamp.n) > TIME_TOLERANCE

\* AuthUtil.verifyDynamicAuth: "true", "false", or "RangeError" when
\* crypto.timingSafeEqual is given buffers of different lengths
verifyDynamicAuth(timestamp, signature, key, time) ==
  IF OutsideTolerance(time \div 1000, timestamp) THEN "false"
  ELSE IF Len(signature) # Len(generateSignature(timestamp, key)) THEN "RangeError"
  ELSE IF signature = generateSignature(timestamp, key) THEN "true"
  ELSE "false"

Decision(timestamp, signature, kind, message) ==
  [timestamp |-> timestamp, signature |-> signature, kind |-> kind, message |-> message]

\* DynamicAuthGuard.canActivate for the two headers ("" when missing)
canActivate(timestamp, signature) ==
  IF timestamp = "" \/ signature = ""
  THEN Decision(timestamp, signature, "UnauthorizedException", "missing credentials")
  ELSE IF secretKey = ""
  THEN Decision(timestamp, signature, "UnauthorizedException", "server configuration error")
  ELSE CASE verifyDynamicAuth(parseInt(timestamp), signature, secretKey, now) = "true" ->
              Decision(timestamp, signature, "admitted", "")
         [] verifyDynamicAuth(parseInt(timestamp), signature, secretKey, now) = "false" ->
              Decision(timestamp, signature, "UnauthorizedException", "authentication failed")
         [] OTHER -> Decision(timestamp, signature, "RangeError", "byte length")

ServerSecret == "s3cret"
TimestampHeaders == {"", "60", "90", "75x", "200", "abc"}
SignatureHeaders ==
  {"", "forged"} \cup
  {Hmac(text, key) : text \in {"60", "90", "75", "200", "NaN"}, key \in {ServerSecret, "other"}}

GuardStart == 60000
GuardEnd == GuardStart + MaxGuardTicks * 500

GuardInit ==
  /\ secretKey \in {"", ServerSecret}
  /\ verdict = NoVerdict
  /\ now = GuardStart
  /\ wait = 0
  /\ IdleThrottle
  /\ IdleDebounce
  /\ pc = "guard"
  /\ IdleExec
  /\ IdleScan
  /\ IdleCoerce
  /\ IdleStore

\* a request reaches the guard
CanActivate ==
  /\ pc = "guard"
  /\ \E timestamp \in TimestampHeaders, signature \in SignatureHeaders :
       verdict' = canActivate(timestamp, signature)
  /\ UNCHANGED <<execVars, scanVars, coerceVars, storeVars, timeVars, throttleVars, secretKey, debounceVars>>

\* the decision has gone back to the caller; half a second passes on the
\* server clock
GuardTick ==
  /\ pc = "guard"
  /\ now < GuardEnd
  /\ now' = now + 500
  /\ verdict' = NoVerdict
  /\ UNCHANGED <<execVars, scanVars, coerceVars, storeVars, wait, throttleVars, secretKey, debounceVars>>

GuardNext == CanActivate \/ GuardTick

GuardSpec == GuardInit /\ [][GuardNext]_vars

\* C18: the guard admits a request only when the server time, in seconds, is
\* within 30 seconds of the x-timestamp header and x-signature is the HMAC of
\* that timestamp under the server secret; so a pair whose timestamp is more
\* than 30 seconds in the past is rejected on every later request.
C18_AdmitsOnlyFreshSigned ==
  verdict.kind = "admitted" =>
    /\ ~parseInt(verdict.timestamp).nan
    /\ Abs(now \div 1000 - parseInt(verdict.timestamp).n) <= TIME_TOLERANCE
    /\ verdict.signature = Hmac(NatText(parseInt(verdict.timestamp).n), secretKey)
    /\ secretKey # ""

(***************************************************************************)
(* The Debounce decorator: calls of one decorated method, the clock and    *)
(* the timers.  Times are milliseconds.                                    *)
(***************************************************************************)
MaxArrivals == 3
MaxDebounceTicks == 4
DebounceEnd == StartTime + MaxDebounceTicks

\* the arguments that tell the calls apart
Payloads == {"p1", "p2"}

Timer(key, due, kind, args) == [key |-> key, due |-> due, kind |-> kind, args |-> args]

\* a timer left set although clearTimeout was called for it
KeepTimeout(timers, timer) == timers

\* clearTimeout(existingTimer)
ClearTimeout(timers, timer) == timers \ {timer}

\* a timer that is due runs before the next call is taken and before the
\* clock moves on
NoneDue == \A timer \in active : timer.due > now

DebounceInit ==
  /\ wait \in 1..MaxWait
  /\ now = StartTime
  /\ leading \in BOOLEAN
  /\ trailing \in BOOLEAN
  /\ debounceTimerMap = <<>>
  /\ active = {}
  /\ arrivals = <<>>
  /\ executions = <<>>
  /\ promises = <<>>
  /\ IdleThrottle
  /\ IdleGuard
  /\ pc = "debounce"
  /\ IdleExec
  /\ IdleScan
  /\ IdleCoerce
  /\ IdleStore

\* the promise body of descriptor.value, for the key and the arguments
Debounced(key, args) ==
  LET has == key \in DOMAIN debounceTimerMap
      shouldExecuteLeading == leading /\ ~has
      cleared == IF has THEN ClearTimeout(active, debounceTimerMap[key]) ELSE active
      run == [key |-> key, args |-> args, at |-> now]
  IN IF has /\ ~trailing
     THEN /\ active' = cleared
          /\ response' = HttpException(errorStatus, errorMessage, key)
          /\ promises' = Append(promises, "rejected")
          /\ UNCHANGED <<debounceTimerMap, executions>>
     ELSE IF shouldExecuteLeading
     THEN /\ executions' = Append(executions, run)
          /\ debounceTimerMap' = SetTime(debounceTimerMap, key, Timer(key, now + wait, "leading", args))
          /\ active' = cleared \cup {Timer(key, now + wait, "leading", args)}
          /\ response' = Executed(key)
          /\ promises' = Append(promises, "resolved")
     ELSE IF trailing
     THEN /\ debounceTimerMap' = SetTime(debounceTimerMap, key, Timer(key, now + wait, "trailing", args))
          /\ active' = cleared \cup {Timer(key, now + wait, "trailing", args)}
          /\ response' = NoResponse
          /\ promises' = Append(promises, "pending")
          /\ UNCHANGED executions
     ELSE /\ active' = cleared
          /\ response' = HttpException(errorStatus, errorMessage, key)
          /\ promises' = Append(promises, "rejected")
          /\ UNCHANGED <<debounceTimerMap, executions>>

\* descriptor.value of Debounce, called with a request
DebounceCall ==
  /\ pc = "debounce"
  /\ Len(arrivals) < MaxArrivals
  /\ NoneDue
  /\ \E request \in Requests, args \in Payloads :
       IF request.ip = ""
       THEN /\ response' = PlainError
            /\ UNCHANGED <<debounceTimerMap, active, arrivals, executions, promises>>
       ELSE /\ arrivals' = Append(arrivals, [key |-> getClientIP(request) \o "-" \o methodId,
                                              args |-> args, at |-> now])
            /\ Debounced(getClientIP(request) \o "-" \o methodId, args)
  /\ UNCHANGED <<execVars, scanVars, coerceVars, storeVars, timeVars, guardVars, leading,
                 trailing, lastExecutionTimeMap, cleanups, admitted>>

\* the call whose promise the callback of the trailing timer settles: the
\* last call that set a timer of this key, arguments and due time
SetBy(timer) ==
  {i \in 1..Len(arrivals) :
     /\ arrivals[i].key = timer.key
     /\ arrivals[i].args = timer.args
     /\ arrivals[i].at + wait = timer.due}
LastSetBy(timer) == CHOOSE i \in SetBy(timer) : \A j \in SetBy(timer) : j <= i

\* the callback of a timer that is due: the key is deleted and, for a
\* trailing timer, the original method runs with the arguments of its call
\* and the promise of that call is settled with its outcome
TimerFire ==
  /\ pc = "debounce"
  /\ \E timer \in active :
       /\ timer.due <= now
       /\ active' = active \ {timer}
       /\ debounceTimerMap' = DeleteKey(debounceTimerMap, timer.key)
       /\ executions' =
            IF timer.kind = "trailing"
            THEN Append(executions, [key |-> timer.key, args |-> timer.args, at |-> now])
            ELSE executions
       /\ promises' =
            IF timer.kind = "trailing"
            THEN [promises EXCEPT ![LastSetBy(timer)] = "resolved"]
            ELSE promises
  /\ UNCHANGED <<execVars, scanVars, coerceVars, storeVars, timeVars, guardVars, leading,
                 trailing, arrivals, throttleVars>>

\* a millisecond passes
DebounceTick ==
  /\ pc = "debounce"
  /\ now < DebounceEnd
  /\ NoneDue
  /\ now' = now + 1
  /\ UNCHANGED <<execVars, scanVars, coerceVars, storeVars, wait, guardVars, throttleVars,
                 debounceVars>>

DebounceNext == DebounceCall \/ TimerFire \/ DebounceTick

DebounceSpec == DebounceInit /\ [][DebounceNext]_vars

\* the call is the last of its burst: no later call of its key comes less
\* than wait after it
LastOfBurst(i) ==
  ~\E j \in (i + 1)..Len(arrivals) :
      arrivals[j].key = arrivals[i].key /\ arrivals[j].at - arrivals[i].at < wait

RunsOf(i) ==
  {e \in 1..Len(executions) :
     executions[e].key = arrivals[i].key /\ executions[e].at = arrivals[i].at + wait}

SimpleResults(name, sql) == {SimpleHandler(name, sql, backend).result : backend \in BackendOutcomes}

\* C21: when a simple classifier matches the normalized text, executeSQL
\* returns the Result of the matched simple handler as it is, and in that call
\* the parser, the AST handlers and the catch block never run, also when the
\* handler returns a 400 error Result; the parser runs only when all four
\* classifiers are false.
C21_FastPathIsFinal ==
  /\ pc \in {"dispatch", "catch"} => NoClassifier(processedSQL)
  /\ (ast # NoAst \/ error # "") => NoClassifier(processedSQL)
  /\ (pc = "done" /\ FirstMatch(processedSQL) # "") =>
       /\ handlers = <<FirstMatch(processedSQL)>>
       /\ ~rejected
       /\ result \in SimpleResults(FirstMatch(processedSQL), processedSQL)

\* C21, its case: the matched simple handler returned a 400 error Result and
\* the call ended with it, the parser and the catch block not entered.
C21_Witness ==
  /\ pc = "done"
  /\ FirstMatch(processedSQL) # ""
  /\ handlers = <<FirstMatch(processedSQL)>>
  /\ result.error
  /\ result.statusCode = "400"
  /\ requests = <<>>
  /\ ast = NoAst
  /\ error = ""

(***************************************************************************)
(* isSimpleSelect, as stated                                               *)
(***************************************************************************)
\* SELECT <fields> FROM: the field list is the text between the two keywords
fieldListRegex ==
  Cat(<<Bol, Lit("SELECT"), Plus(S), Grp(1, LazyStar(Dot)), Plus(S), Lit("FROM")>>)
FieldList(text) == Group(Exec(fieldListRegex, trim(text), TRUE), trim(text), 1)

\* a SELECT statement whose field list is not * and contains a comma
HasCommaFieldList(text) ==
  /\ Test(fieldListRegex, trim(text), TRUE)
  /\ trim(FieldList(text)) # "*"
  /\ includes(FieldList(text), ",")

\* SELECT <fields> FROM <identifier> [ORDER BY <identifier> [ASC|DESC]]
IsBasicSelect(text) == Test(basicSelectRegex, trim(text), TRUE)

StatedSimpleSelect(text) == HasCommaFieldList(text) \/ IsBasicSelect(text)

\* C22: isSimpleSelect(text) is true exactly when the text is a SELECT whose
\* field list (between SELECT and FROM) is not * and contains a comma, or the
\* whole text is SELECT <fields> FROM <identifier> [ORDER BY <identifier>
\* [ASC|DESC]]; the answer does not depend on the letter case of the text, and
\* a comma after FROM does not make it true.
C22_SimpleSelectAsStated ==
  pc # "start" =>
    /\ isSimpleSelect(processedSQL) = StatedSimpleSelect(processedSQL)
    /\ isSimpleSelect(processedSQL) = isSimpleSelect(toLowerCase(processedSQL))
    /\ isSimpleSelect(processedSQL) = isSimpleSelect(toUpperCase(processedSQL))

(***************************************************************************)
(* The fast path and the kind of the statement                             *)
(***************************************************************************)
\* the call ended on the fast path: one simple handler, the parser not run
OnFastPath ==
  /\ pc = "done"
  /\ error = ""
  /\ ast = NoAst
  /\ Len(handlers) = 1
  /\ handlers[1] \in SimpleHandlers

\* the operation of a request: its select, insert, update or delete call
\* (the select-back of an insert or update comes after it)
OperationOf(request) ==
  IF Has(request, "insert") THEN "insert"
  ELSE IF Has(request, "update") THEN "update"
  ELSE IF Has(request, "delete") THEN "delete"
  ELSE IF Has(request, "select") THEN "select"
  ELSE ""

\* C23: on the fast path the operation issued is of the kind of the
\* statement: handleSimpleSelect runs only for a statement that begins with
\* SELECT, handleSimpleInsert only for INSERT, handleSimpleUpdate only for
\* UPDATE, handleSimpleDelete only for DELETE; a statement that begins with
\* another keyword and only contains SELECT text causes no request.
C23_OperationOfStatementKind ==
  OnFastPath =>
    /\ handlers[1] = SimpleHandlerOf(StatementWord(processedSQL))
    /\ \A i \in 1..Len(requests) : OperationOf(requests[i]) = StatementWord(processedSQL)

(***************************************************************************)
(* Quoted values of the simple INSERT                                      *)
(***************************************************************************)
\* the simple INSERT of the script has sent its request
SimpleInsertSent ==
  /\ step = 1
  /\ pc = "done"
  /\ handlers = <<"handleSimpleInsert">>
  /\ requests # <<>>
  /\ Has(requests[1], "insert")

\* C24: on the simple INSERT path a value written between quotes is inserted
\* as the string between the quotes, whatever that string is ('7' and 'true'
\* stay strings); only unquoted tokens are re-typed by token coercion.
C24_QuotedValuesStayStrings ==
  \A v1 \in Literals, v2 \in Literals :
    (script = <<InsertText(v1, v2), SelectText(v1)>> /\ SimpleInsertSent) =>
      CallOf(requests[1], "insert").rec = Row(Written(v1), Written(v2))

(***************************************************************************)
(* parseSimpleWhere through handleSimpleDelete: DELETE FROM t WHERE        *)
(* <clause>, for bounded clauses.                                          *)
(***************************************************************************)
ClauseOperators == {"=", "!=", "<>", ">", ">=", "<", "<=", "==", "LIKE"}
ClauseValues == {"1", "12", "x", "'x'", Quote2 \o "x y" \o Quote2}
OneComparison == {"a " \o op \o " " \o v : op \in ClauseOperators, v \in ClauseValues}
SecondComparison == {"b = 2", "b = 'y'", "b > 3"}
WhereTexts ==
  OneComparison
  \cup {c \o " AND " \o d : c \in OneComparison, d \in SecondComparison}
  \cup {"a IN (1, 2)", "a IS NULL"}

DeleteHead == "DELETE FROM t WHERE "
DeleteWhere(clause) == DeleteHead \o clause

WhereInit ==
  /\ sqlQuery \in {DeleteWhere(c) : c \in WhereTexts}
  /\ pc = "start"
  /\ processedSQL = ""
  /\ ast = NoAst
  /\ error = ""
  /\ handlers = <<>>
  /\ calls = <<>>
  /\ requests = <<>>
  /\ result = NoResult
  /\ rejected = FALSE
  /\ IdleScan
  /\ IdleOther

WhereNext == Preprocess \/ FastDelete

WhereSpec == WhereInit /\ [][WhereNext]_vars

\* the clause handleSimpleDelete hands to parseSimpleWhere
Clause == SubSeq(processedSQL, Len(DeleteHead) + 1, Len(processedSQL))

\* the five patterns in their order: quoted equality, integer equality,
\* bare-word equality, quoted comparison, unquoted comparison
WherePatterns ==
  <<quotedConditionRegex, numberConditionRegex, unquotedConditionRegex,
    quotedComparisonRegex, unquotedComparisonRegex>>
MatchingPatterns(clause) == {i \in DOMAIN WherePatterns : Test(WherePatterns[i], clause, FALSE)}
FirstPattern(clause) ==
  CHOOSE i \in MatchingPatterns(clause) : \A j \in MatchingPatterns(clause) : i <= j

\* the value of an unquoted comparison: a number when all digits
BareValue(text) == IF IsDigits(text) THEN NumVal(parseIntText(text)) ELSE StrVal(text)

\* the filter the pattern gives for the clause it matches
PatternFilter(pattern, clause) ==
  LET found == Exec(WherePatterns[pattern], clause, FALSE)
      column == Group(found, clause, 1)
      second == Group(found, clause, 2)
  IN CASE pattern = 1 -> <<Filter("eq", column, StrVal(Group(found, clause, 3)))>>
       [] pattern = 2 -> <<Filter("eq", column, NumVal(parseIntText(second)))>>
       [] pattern = 3 -> <<Filter("eq", column, StrVal(second))>>
       [] pattern = 4 -> applyOperator(column, second, StrVal(Group(found, clause, 4)))
       [] pattern = 5 -> applyOperator(column, second, BareValue(Group(found, clause, 3)))

FirstMatchFilter(clause) ==
  IF MatchingPatterns(clause) = {} THEN <<>> ELSE PatternFilter(FirstPattern(clause), clause)

\* C25: parseSimpleWhere tries its five patterns in the fixed order and
\* applies the first one that matches: at most one filter call is added per
\* WHERE clause, and when no pattern matches the builder is returned
\* unchanged and no error is raised, so the query goes on without a filter.
C25_FirstPatternWins ==
  pc = "done" =>
    /\ handlers = <<"handleSimpleDelete">>
    /\ Len(FilterCalls) <= 1
    /\ FilterCalls = FirstMatchFilter(Clause)
    /\ calls = <<From("t"), Delete>> \o FilterCalls
    /\ requests = <<calls>>
    /\ ~rejected
    /\ result.error => result.message \in {BackendErrorMessage, BackendRejectMessage}

\* C25, its case: two patterns match the clause (integer equality on b and
\* unquoted comparison on a) and the filter of the first in order is the only
\* one added.
C25_Witness ==
  /\ pc = "done"
  /\ Clause = "a > 1 AND b = 2"
  /\ MatchingPatterns(Clause) = {2, 5}
  /\ FilterCalls = <<Filter("eq", "b", NumVal("2"))>>
  /\ result.data = "rows"

(***************************************************************************)
(* The order of the builder calls of a request                             *)
(***************************************************************************)
Operations == {"select", "insert", "update", "delete"}

\* where a call after the operation stands: filters, then order calls, then
\* limit, then the select-back
Rank(c) ==
  CASE c.m \in FilterMethods -> 1
    [] c.m = "order" -> 2
    [] c.m = "limit" -> 3
    [] c.m = "select" -> 4
    [] OTHER -> 0

\* the calls of the request after from(table) and the operation
Rest(request) == SubSeq(request, 3, Len(request))

InOrder(request) ==
  /\ Len(request) >= 2
  /\ request[1].m = "from"
  /\ request[2].m \in Operations
  /\ \A i \in 1..Len(Rest(request)) : Rank(Rest(request)[i]) > 0
  /\ \A i \in 1..(Len(Rest(request)) - 1) : Rank(Rest(request)[i]) <= Rank(Rest(request)[i + 1])
  /\ Cardinality({i \in 1..Len(request) : request[i].m = "limit"}) <= 1
  /\ IF request[2].m \in {"insert", "update"}
     THEN /\ Last(request) = SelectBack
          /\ Cardinality({i \in 1..Len(request) : request[i].m = "select"}) = 1
     ELSE \A i \in 1..Len(Rest(request)) : Rest(request)[i].m # "select"

\* C26: in every query executeSQL issues the builder calls are from(table),
\* then exactly one of select, insert, update, delete, then the filter calls,
\* then the order calls, then limit; for INSERT and UPDATE the select-back
\* select() is the last call, DELETE has no select-back, and no filter call
\* comes before the operation call.
C26_CallsInOrder ==
  \A i \in 1..Len(requests) : InOrder(requests[i])

\* C26, its cases: a SELECT issued with a filter, an order call and a limit
\* in that order
C26_Witness ==
  /\ pc = "done"
  /\ Len(requests) = 1
  /\ Len(requests[1]) = 5
  /\ requests[1][2].m = "select"
  /\ requests[1][3].m = "eq"
  /\ requests[1][4].m = "order"
  /\ requests[1][5].m = "limit"

(***************************************************************************)
(* OR over AND or OR                                                       *)
(***************************************************************************)
IsConnective(n) == n.type = "binary_expr" /\ n.operator \in {"AND", "OR"}

\* the tree holds an OR node one of whose children is an AND or OR node
RECURSIVE HasNestedOr(_)
HasNestedOr(n) ==
  /\ IsConnective(n)
  /\ \/ n.operator = "OR" /\ (IsConnective(n.left) \/ IsConnective(n.right))
     \/ HasNestedOr(n.left)
     \/ HasNestedOr(n.right)

\* C27: when an OR node of the WHERE tree of the AST path has a child that is
\* itself an AND or OR node, executeSQL returns an error Result and sends no
\* request: no or() filter built from a non-leaf child is ever issued.
C27_NestedOrRejected ==
  (OnAstPath /\ HasNestedOr(ast.where)) =>
    /\ ~rejected
    /\ result.error
    /\ result.data = "null"
    /\ requests = <<>>

\* C27, its case: a = 1 OR b = 2 AND c = 3 reached handleSelect, whose
\* buildConditionString refused the AND child
C27_Witness ==
  /\ OnAstPath
  /\ HasNestedOr(ast.where)
  /\ handlers = <<"handleSelect">>
  /\ result = handleError("Unsupported operator in OR condition: AND", "undefined")
  /\ requests = <<>>

(***************************************************************************)
(* Debounce: the promises of the calls.  Time goes on and due timers run   *)
(* (weak fairness of the clock and of the timer callbacks); past the end   *)
(* of the observed time the clock still runs while a timer is set.         *)
(***************************************************************************)
DebounceDrain ==
  /\ pc = "debounce"
  /\ now >= DebounceEnd
  /\ active # {}
  /\ NoneDue
  /\ now' = now + 1
  /\ UNCHANGED <<execVars, scanVars, coerceVars, storeVars, wait, guardVars, throttleVars,
                 debounceVars>>

DebounceLiveNext == DebounceCall \/ TimerFire \/ DebounceTick \/ DebounceDrain

DebounceLiveSpec ==
  /\ DebounceInit
  /\ [][DebounceLiveNext]_vars
  /\ WF_vars(TimerFire)
  /\ WF_vars(DebounceTick)
  /\ WF_vars(DebounceDrain)

Called(i) == Len(promises) >= i
Settled(i) == Called(i) /\ promises[i] # "pending"

\* C28: every call of a method wrapped by Debounce eventually settles, its
\* promise resolved with the result of the original method or rejected, for
\* every option combination and every interleaving of calls and timers, also
\* when the pending timer of the call is cleared by a later call of its key.
C28_EveryCallSettles ==
  \A i \in 1..MaxArrivals : Called(i) ~> Settled(i)

(***************************************************************************)
(* Debounce with leading = true and trailing = false                       *)
(***************************************************************************)
\* no earlier call of the key of call i came less than wait before it
QuietBefore(i) ==
  \A j \in 1..(i - 1) :
    arrivals[j].key = arrivals[i].key => arrivals[i].at - arrivals[j].at >= wait

\* the original method ran for call i, at the time of the call
RanAtOnce(i) ==
  \E e \in 1..Len(executions) :
    executions[e] = [key |-> arrivals[i].key, args |-> arrivals[i].args, at |-> arrivals[i].at]

\* a call of the key came no more than wait ago
CalledWithinWait(key) ==
  \E i \in 1..Len(arrivals) : arrivals[i].key = key /\ now - arrivals[i].at <= wait

\* C29: Debounce with leading = true and trailing = false never locks a key
\* out: a call that comes at least wait after every earlier call of its key
\* executes the original method, and the entry of a key in debounceTimerMap
\* is removed at the latest wait after the last call of the key.
C29_NeverLockedOut ==
  (leading /\ ~trailing /\ pc = "debounce") =>
    /\ \A i \in 1..Len(arrivals) : QuietBefore(i) => RanAtOnce(i)
    /\ \A key \in DOMAIN debounceTimerMap : CalledWithinWait(key)

(***************************************************************************)
(* The outcomes of DynamicAuthGuard.canActivate                            *)
(***************************************************************************)
\* the request must be rejected: a header is missing, the timestamp is not a
\* number or lies outside the window, or the signature is not the expected one
MustReject(v) ==
  \/ v.timestamp = ""
  \/ v.signature = ""
  \/ parseInt(v.timestamp).nan
  \/ OutsideTolerance(now \div 1000, parseInt(v.timestamp))
  \/ v.signature # generateSignature(parseInt(v.timestamp), secretKey)

\* C30: canActivate has two outcomes only, returning true or throwing
\* UnauthorizedException: a request with a missing header, a timestamp
\* outside the window, a non-numeric timestamp or a signature that differs
\* from the expected one, of any length, is rejected with
\* UnauthorizedException and with no other exception type.
C30_TrueOrUnauthorized ==
  verdict # NoVerdict =>
    /\ verdict.kind \in {"admitted", "UnauthorizedException"}
    /\ MustReject(verdict) => verdict.kind = "UnauthorizedException"

=============================================================================
